---- MODULE Spec2Model ----
(***************************************************************************)
(* Fill-rate reports: the schema normaliser (load_and_process_data) and    *)
(* the cross-system matcher (create_matching_analysis) of                  *)
(* src/data_processing.py, as a state machine over tables of rows.         *)
(*                                                                         *)
(* Text is a sequence of one-character strings, so that slicing,           *)
(* stripping, padding and comparison are computed as Python computes them. *)
(* A missing cell (NaN / None) is the one-element sequence NA.             *)
(***************************************************************************)
EXTENDS Integers, Sequences, FiniteSets, TLC

VARIABLES
    pc,                 \* stage of the run
    csv_cols,           \* columns of the primary extracts
    csv_rows,           \* rows of the concatenated primary extracts
    main_df,            \* normalised primary table (df in main)
    main_cols,          \* columns of main_df
    srepp_df,           \* payroll table
    srepp_cols,         \* columns of srepp_df
    subcentral_jobs,    \* location -> set of primary job ids
    subcentral_totals,  \* location -> number of primary job days
    srepp_jobs,         \* location -> set of payroll job ids
    srepp_totals,       \* location -> number of payroll job days
    location_mapping,   \* last-4 location code -> primary location
    matching_df,        \* rows returned by create_matching_analysis
    error,              \* exception that ended the stage, or "none"
    group_cols,         \* group_cols of the last create_summary_stats call
    summary_stats,      \* rows returned by create_summary_stats
    ref_df,             \* rows of the superintendent reference file
    mapping_df,         \* rows returned by load_superintendent_mapping
    fn_name,            \* helper function called on its own, or "none"
    fn_arg,             \* its argument
    fn_out,             \* its result
    ref_found,          \* whether a file matches the reference prefix
    csv_file_paths,     \* the input files, in the order main lists them
    force_regenerate,   \* --force / -f on the command line
    citywide_stats,     \* create_summary_stats(df, [])
    borough_stats,      \* create_summary_stats(df, ['Borough'])
    superintendent_stats, \* create_summary_stats(df, ['Superintendent_Name'])
    school_stats,       \* create_summary_stats(df, [.., 'Location'])
    calls,              \* group_cols of every create_summary_stats call
    superintendents,    \* superintendents whose report is still to come
    boroughs,           \* boroughs whose report is still to come
    disk,               \* report files in the output directory
    written,            \* report files written by the current run
    run                 \* 1 for the first run, 2 for the one after it

\* What the summary, the enrichment and the helper calls write.
statsVars == <<group_cols, summary_stats, ref_df, mapping_df,
               fn_name, fn_arg, fn_out>>

\* What main reads from its environment and writes on the way to the
\* reports.
runVars == <<ref_found, csv_file_paths, force_regenerate, citywide_stats,
             borough_stats, superintendent_stats, school_stats, calls,
             superintendents, boroughs, disk, written, run>>

vars == <<pc, csv_cols, csv_rows, main_df, main_cols, srepp_df, srepp_cols,
          subcentral_jobs, subcentral_totals, srepp_jobs, srepp_totals,
          location_mapping, matching_df, error, statsVars, runVars>>

----------------------------------------------------------------------------
(* Bounds of the model.                                                    *)

MaxRows == 3

MaxLoadRows == 2

MaxStatsRows == 3

MaxTokens == 3

MaxRefRows == 3

MaxFiles == 3

MaxCount == 2

MaxRunRows == 2

MaxRunRefRows == 2

----------------------------------------------------------------------------
(* Characters and text.                                                    *)

\* The characters of the model in code-point order.
Alphabet ==
    << " ", "'", ",", "-", ".", "/",
       "0", "1", "2", "3", "4", "5", "6", "7", "8", "9",
       "A", "B", "C", "D", "E", "F", "G", "H", "I", "J", "K", "L", "M",
       "N", "O", "P", "Q", "R", "S", "T", "U", "V", "W", "X", "Y", "Z",
       "_",
       "a", "b", "c", "d", "e", "f", "g", "h", "i", "j", "k", "l", "m",
       "n", "o", "p", "q", "r", "s", "t", "u", "v", "w", "x", "y", "z",
       "|" >>

Ord(c) == CHOOSE i \in 1..Len(Alphabet) : Alphabet[i] = c

IsDigit(c) == Ord(c) >= Ord("0") /\ Ord(c) <= Ord("9")
IsUpper(c) == Ord(c) >= Ord("A") /\ Ord(c) <= Ord("Z")
IsLower(c) == Ord(c) >= Ord("a") /\ Ord(c) <= Ord("z")
IsAlpha(c) == IsUpper(c) \/ IsLower(c)
IsSpace(c) == c = " "

ToUpper(c) == IF IsLower(c) THEN Alphabet[Ord(c) - Ord("a") + Ord("A")] ELSE c
ToLower(c) == IF IsUpper(c) THEN Alphabet[Ord(c) - Ord("A") + Ord("a")] ELSE c

\* A missing value: NaN, None or NaT in a cell.
NA == << "<NA>" >>

IsNA(v) == v = NA

\* str(x) of a cell: a missing value prints as "nan".
Str(v) == IF IsNA(v) THEN << "n", "a", "n" >> ELSE v

RECURSIVE LStrip(_)
LStrip(s) ==
    IF s # << >> /\ IsSpace(Head(s)) THEN LStrip(Tail(s)) ELSE s

RECURSIVE RStrip(_)
RStrip(s) ==
    IF s # << >> /\ IsSpace(s[Len(s)])
    THEN RStrip(SubSeq(s, 1, Len(s) - 1))
    ELSE s

\* str.strip()
Strip(s) == RStrip(LStrip(s))

\* s[n:]
DropFirst(s, n) == SubSeq(s, n + 1, Len(s))

\* s[-n:]
TakeLast(s, n) == IF Len(s) <= n THEN s ELSE SubSeq(s, Len(s) - n + 1, Len(s))

RECURSIVE ZFill(_, _)
\* str.zfill(width) of a text of digits
ZFill(s, width) == IF Len(s) >= width THEN s ELSE ZFill(<< "0" >> \o s, width)

RECURSIVE StrLess(_, _)
\* a < b for Python strings
StrLess(a, b) ==
    IF b = << >> THEN FALSE
    ELSE IF a = << >> THEN TRUE
    ELSE IF Head(a) # Head(b) THEN Ord(Head(a)) < Ord(Head(b))
    ELSE StrLess(Tail(a), Tail(b))

AllDigits(s) == s # << >> /\ \A i \in 1..Len(s) : IsDigit(s[i])

RECURSIVE ParseNat(_)
ParseNat(s) ==
    IF s = << >> THEN 0
    ELSE 10 * ParseNat(SubSeq(s, 1, Len(s) - 1)) + (Ord(s[Len(s)]) - Ord("0"))

RECURSIVE NatToStr(_)
\* str(n) of a non-negative integer
NatToStr(n) ==
    IF n < 10 THEN << Alphabet[Ord("0") + n] >>
    ELSE NatToStr(n \div 10) \o << Alphabet[Ord("0") + (n % 10)] >>

RECURSIVE Split(_, _)
\* s.split(sep): the fields of s between occurrences of the character sep
Split(s, sep) ==
    IF \A i \in 1..Len(s) : s[i] # sep THEN << s >>
    ELSE LET k == CHOOSE i \in 1..Len(s) :
                      s[i] = sep /\ \A j \in 1..(i - 1) : s[j] # sep
         IN  << SubSeq(s, 1, k - 1) >> \o Split(SubSeq(s, k + 1, Len(s)), sep)

----------------------------------------------------------------------------
(* Dictionaries: functions from keys to values; {} is the empty function.  *)

EmptyDict == << >>

Get(d, k, default) == IF k \in DOMAIN d THEN d[k] ELSE default

Put(d, k, v) == [x \in (DOMAIN d) \cup {k} |-> IF x = k THEN v ELSE d[x]]

----------------------------------------------------------------------------
(* Dates.  A Timestamp is [y, m, d]; NaT is the missing Timestamp.         *)

NaT == [y |-> 0, m |-> 0, d |-> 0]

Timestamp(y, m, d) == [y |-> y, m |-> m, d |-> d]

IsLeap(y) == (y % 4 = 0 /\ y % 100 # 0) \/ y % 400 = 0

DaysInMonth(y, m) ==
    IF m = 2 THEN (IF IsLeap(y) THEN 28 + 1 ELSE 28)
    ELSE IF m \in {4, 6, 9, 11} THEN 30 ELSE 31

ValidDate(y, m, d) ==
    /\ y >= 1 /\ m \in 1..12
    /\ d >= 1 /\ d <= DaysInMonth(y, m)

\* Number of days from 1970-01-01 to the civil date y-m-d.
DaysFromCivil(y, m, d) ==
    LET yy  == IF m <= 2 THEN y - 1 ELSE y
        era == yy \div 400
        yoe == yy - era * 400
        mp  == IF m > 2 THEN m - 3 ELSE m + 9
        doy == (153 * mp + 2) \div 5 + d - 1
        doe == yoe * 365 + yoe \div 4 - yoe \div 100 + doy
    IN  era * 146097 + doe - 719468

\* The civil date z days after 1970-01-01.
CivilFromDays(z) ==
    LET zz  == z + 719468
        era == zz \div 146097
        doe == zz - era * 146097
        yoe == (doe - doe \div 1460 + doe \div 36524 - doe \div 146096) \div 365
        doy == doe - (365 * yoe + yoe \div 4 - yoe \div 100)
        mp  == (5 * doy + 2) \div 153
        d   == doy - (153 * mp + 2) \div 5 + 1
        m   == IF mp < 10 THEN mp + 3 ELSE mp - 9
        y   == yoe + era * 400
    IN  Timestamp(IF m <= 2 THEN y + 1 ELSE y, m, d)

\* pd.to_datetime(text, errors='coerce') of one cell: "YYYY-MM-DD" and
\* "M/D/YYYY" are dates, anything else is NaT.
ParseDateText(s) ==
    LET iso == Split(s, "-")
        us  == Split(s, "/")
    IN  IF Len(iso) = 3 /\ \A i \in 1..3 : AllDigits(iso[i])
        THEN LET y == ParseNat(iso[1])
                 m == ParseNat(iso[2])
                 d == ParseNat(iso[3])
             IN  IF ValidDate(y, m, d) THEN Timestamp(y, m, d) ELSE NaT
        ELSE IF Len(us) = 3 /\ \A i \in 1..3 : AllDigits(us[i])
        THEN LET m == ParseNat(us[1])
                 d == ParseNat(us[2])
                 y == ParseNat(us[3])
             IN  IF ValidDate(y, m, d) THEN Timestamp(y, m, d) ELSE NaT
        ELSE NaT

\* pd.to_datetime(cell, errors='coerce') of a text cell.
ToDatetime(cell) == IF IsNA(cell) THEN NaT ELSE ParseDateText(cell)

\* Timestamp.strftime('%Y%m%d')
StrfYmd(t) ==
    ZFill(NatToStr(t.y), 4) \o ZFill(NatToStr(t.m), 2) \o ZFill(NatToStr(t.d), 2)

\* pd.to_numeric(cell, errors='coerce').notna(): digits, optionally followed
\* by "." and zeros (an integral float such as 42.0).  Fractional values are
\* not among the inputs of the model.
IsNumeric(cell) ==
    /\ ~IsNA(cell)
    /\ LET parts == Split(cell, ".")
       IN  \/ Len(parts) = 1 /\ AllDigits(parts[1])
           \/ /\ Len(parts) = 2 /\ AllDigits(parts[1])
              /\ \A i \in 1..Len(parts[2]) : parts[2][i] = "0"

\* pd.to_numeric(cell).astype('Int64') of a numeric cell
ToInt(cell) == ParseNat(Split(cell, ".")[1])

----------------------------------------------------------------------------
(* Tables.                                                                 *)

\* df.groupby(key).size().to_dict()
GroupSize(rows, key) ==
    [k \in {rows[i][key] : i \in 1..Len(rows)} |->
        Cardinality({i \in 1..Len(rows) : rows[i][key] = k})]

\* {location: set of ids} built by the iterrows loops over column key
GroupIds(rows, key) ==
    [k \in {rows[i][key] : i \in 1..Len(rows)} |->
        {rows[i].Job_ID : i \in {j \in 1..Len(rows) : rows[j][key] = k}}]

RECURSIVE Unique(_)
\* Series.unique(): the distinct values in order of first appearance
Unique(s) ==
    IF s = << >> THEN << >>
    ELSE LET init == Unique(SubSeq(s, 1, Len(s) - 1))
             x    == s[Len(s)]
         IN  IF \E i \in 1..Len(init) : init[i] = x THEN init
             ELSE Append(init, x)

----------------------------------------------------------------------------
(* create_matching_analysis: the primary (SubCentral) side.                *)

Filled   == << "F", "i", "l", "l", "e", "d" >>
Unfilled == << "U", "n", "f", "i", "l", "l", "e", "d" >>

\* Width of the zero-padded person identifier.
EisidWidth == 7

\* Number of trailing characters of a primary location that name it in
\* the payroll system.
LocationCodeLen == 4

\* Number of leading characters of SCHOOL that are not the location code.
SchoolPrefixLen == 2

PrimaryRequired == {"Location", "Specified Sub", "Job Start"}
PayrollRequired == {"SCHOOL", "EISID", "DATE"}

\* astype(str).str.zfill(7) of an integer identifier
EisidClean(n) == ZFill(NatToStr(n), EisidWidth)

\* Location_Clean + '|' + EISID_Clean + '|' + Job_Date_Int
JobId(location, eisid, date) ==
    location \o << "|" >> \o eisid \o << "|" >> \o date

\* Job_ID and Location_Clean of a primary row that passed the filters.
SubcentralKeyed(r) ==
    LET Location_Clean == Strip(Str(r.Location))
    IN  [Location_Clean |-> Location_Clean,
         Job_ID |-> JobId(Location_Clean,
                          EisidClean(ToInt(r.Specified_Sub)),
                          StrfYmd(r.Job_Start))]

\* The filled_jobs table at the point where the ids are built: the rows
\* that passed every filter, keyed; empty when the side is skipped.
SubcentralFilledJobs(df, cols) ==
    IF df = << >> THEN << >>
    ELSE LET filled_jobs == SelectSeq(df, LAMBDA r : r.Fill_Status = Filled)
         IN  IF filled_jobs = << >> THEN << >>
             ELSE IF PrimaryRequired \ cols # {} THEN << >>
             ELSE LET dated == SelectSeq(filled_jobs,
                                          LAMBDA r : r.Job_Start # NaT)
                  IN  IF Len(dated) = 0 THEN << >>
                      ELSE LET with_sub == SelectSeq(dated,
                                   LAMBDA r : ~IsNA(r.Specified_Sub))
                           IN  IF Len(with_sub) = 0 THEN << >>
                               ELSE LET numeric == SelectSeq(with_sub,
                                            LAMBDA r : IsNumeric(r.Specified_Sub))
                                    IN  [i \in 1..Len(numeric) |->
                                            SubcentralKeyed(numeric[i])]

SubcentralJobs(df, cols) ==
    GroupIds(SubcentralFilledJobs(df, cols), "Location_Clean")

\* Totals that count distinct job ids instead of job days.
SubcentralTotalsDistinct(df, cols) ==
    [k \in DOMAIN SubcentralJobs(df, cols) |->
        Cardinality(SubcentralJobs(df, cols)[k])]

SubcentralTotals(df, cols) ==
    GroupSize(SubcentralFilledJobs(df, cols), "Location_Clean")

----------------------------------------------------------------------------
(* create_matching_analysis: the payroll (SREPP) side.                     *)

\* School_Clean: SCHOOL without its first two characters
SchoolClean(school) == DropFirst(Strip(Str(school)), SchoolPrefixLen)

\* valid_srepp: the payroll rows with a numeric EISID and a valid date,
\* with their School_Clean and Job_ID.
ValidSrepp(srepp) ==
    LET with_id == SelectSeq(srepp, LAMBDA r : ~IsNA(r.EISID))
    IN  IF Len(with_id) = 0 THEN << >>
        ELSE LET numeric == SelectSeq(with_id, LAMBDA r : IsNumeric(r.EISID))
             IN  IF Len(numeric) = 0 THEN << >>
                 ELSE LET dated == SelectSeq(numeric,
                                       LAMBDA r : ToDatetime(r.DATE) # NaT)
                      IN  [i \in 1..Len(dated) |->
                             [School_Clean |-> SchoolClean(dated[i].SCHOOL),
                              Job_ID |-> JobId(SchoolClean(dated[i].SCHOOL),
                                               EisidClean(ToInt(dated[i].EISID)),
                                               StrfYmd(ToDatetime(dated[i].DATE)))]]

RECURSIVE BuildLocationMappingKeepFirst(_, _)
\* A translation map that keeps the first location of each code.
BuildLocationMappingKeepFirst(main_locations, mapping) ==
    IF main_locations = << >> THEN mapping
    ELSE LET main_location_str == Strip(Str(Head(main_locations)))
             code == TakeLast(main_location_str, LocationCodeLen)
         IN  BuildLocationMappingKeepFirst(
                 Tail(main_locations),
                 IF code \in DOMAIN mapping THEN mapping
                 ELSE Put(mapping, code, main_location_str))

RECURSIVE BuildLocationMapping(_, _)
\* for main_location in main_locations:
\*     location_mapping[main_location_str[-4:]] = main_location_str
BuildLocationMapping(main_locations, mapping) ==
    IF main_locations = << >> THEN mapping
    ELSE LET main_location_str == Strip(Str(Head(main_locations)))
         IN  BuildLocationMapping(
                 Tail(main_locations),
                 Put(mapping, TakeLast(main_location_str, LocationCodeLen),
                     main_location_str))

LocationMapping(df) ==
    IF df = << >> THEN EmptyDict
    ELSE BuildLocationMapping(
             Unique([i \in 1..Len(df) |-> df[i].Location]), EmptyDict)

\* A mapping that files a payroll row of an unknown school under its own
\* School_Clean.
MappedSreppKeepAll(valid_srepp, mapping) ==
    [i \in 1..Len(valid_srepp) |->
        [Location |-> Get(mapping, valid_srepp[i].School_Clean,
                          valid_srepp[i].School_Clean),
         Job_ID   |-> valid_srepp[i].Job_ID]]

\* mapped_srepp: the valid payroll rows whose School_Clean is a key of the
\* mapping, with the primary location it maps to.
MappedSrepp(valid_srepp, mapping) ==
    LET mapped == SelectSeq(valid_srepp,
                             LAMBDA r : r.School_Clean \in DOMAIN mapping)
    IN  [i \in 1..Len(mapped) |->
            [Location |-> mapping[mapped[i].School_Clean],
             Job_ID   |-> mapped[i].Job_ID]]

\* The payroll side is skipped: no rows, or a required column is missing.
SreppSkipped(srepp, cols) == srepp = << >> \/ PayrollRequired \ cols # {}

\* main_df['Location'] is read only when valid payroll rows remain.
ReadsMainLocation(df, srepp, cols) ==
    /\ ~SreppSkipped(srepp, cols)
    /\ Len(ValidSrepp(srepp)) > 0
    /\ df # << >>

SreppMapped(df, srepp, cols) ==
    IF SreppSkipped(srepp, cols) THEN << >>
    ELSE MappedSrepp(ValidSrepp(srepp), LocationMapping(df))

SreppJobs(df, srepp, cols) ==
    GroupIds(SreppMapped(df, srepp, cols), "Location")

SreppTotals(df, srepp, cols) ==
    GroupSize(SreppMapped(df, srepp, cols), "Location")

----------------------------------------------------------------------------
(* create_matching_analysis: the comparison by location.                   *)

\* A matcher that counts the ids of either system.
MatchedJobsEither(subcentral_job_set, srepp_job_set) ==
    Cardinality(subcentral_job_set \cup srepp_job_set)

\* A count of every SubCentral id, matched or not.
MatchedJobsPrimaryOnly(subcentral_job_set, srepp_job_set) ==
    Cardinality(subcentral_job_set)

\* Number of SubCentral ids that also appear in payroll
MatchedJobs(subcentral_job_set, srepp_job_set) ==
    Cardinality({id \in subcentral_job_set : id \in srepp_job_set})

\* a / b * 100 as the exact fraction num / den; den = 0 stands for the
\* ZeroDivisionError Python raises.
Percent(a, b) == [num |-> a * 100, den |-> b]

\* A coverage rate that divides whatever the payroll count is.
CoverageRateUnguarded(matched_jobs, srepp_days) ==
    Percent(matched_jobs, srepp_days)

\* coverage_rate
CoverageRate(matched_jobs, srepp_days) ==
    IF srepp_days > 0 THEN Percent(matched_jobs, srepp_days)
    ELSE [num |-> 0, den |-> 1]

\* A comparison that keeps only the locations both systems know.
AllLocationsShared(sub_totals, pay_totals) ==
    (DOMAIN sub_totals) \cap (DOMAIN pay_totals)

\* all_locations
AllLocations(sub_totals, pay_totals) ==
    (DOMAIN sub_totals) \cup (DOMAIN pay_totals)

\* One entry of matching_results.
MatchingResult(location, sub_jobs, sub_totals, pay_jobs, pay_totals) ==
    LET subcentral_days == Get(sub_totals, location, 0)
        srepp_days      == Get(pay_totals, location, 0)
        matched_jobs    == MatchedJobs(Get(sub_jobs, location, {}),
                                       Get(pay_jobs, location, {}))
    IN  [Location            |-> location,
         SubCentral_Job_Days |-> subcentral_days,
         Payroll_Job_Days    |-> srepp_days,
         Matched_Jobs        |-> matched_jobs,
         Match_Percentage    |-> CoverageRate(matched_jobs, srepp_days)]

\* The orders in which "for location in all_locations" may visit a set.
IterationOrders(S) ==
    {f \in [1..Cardinality(S) -> S] :
        \A i, j \in 1..Cardinality(S) : i # j => f[i] # f[j]}

\* The place of row r in a table sorted by Location.
InsertSorted(r, sorted) ==
    LET k == Cardinality({i \in 1..Len(sorted) :
                             StrLess(sorted[i].Location, r.Location)})
    IN  SubSeq(sorted, 1, k) \o << r >> \o SubSeq(sorted, k + 1, Len(sorted))

\* A result left in the order the locations were visited.
Unsorted(rows) == rows

RECURSIVE SortByLocation(_)
\* matching_df.sort_values('Location')
SortByLocation(rows) ==
    IF rows = << >> THEN << >>
    ELSE InsertSorted(Head(rows), SortByLocation(Tail(rows)))

\* The DataFrame returned for one iteration order of all_locations.
MatchingDf(order, sub_jobs, sub_totals, pay_jobs, pay_totals) ==
    SortByLocation([i \in 1..Len(order) |->
        MatchingResult(order[i], sub_jobs, sub_totals, pay_jobs, pay_totals)])

----------------------------------------------------------------------------
(* load_and_process_data: normalisation of the primary table.              *)

\* Text that is only ever compared as a whole (a Status) is kept as one
\* piece.
Whole(text) == << text >>

\* filled_statuses
filled_statuses ==
    { Whole("Finished/Admin Assigned"),
      Whole("Finished/IVR Assigned"),
      Whole("Finished/IVR Sub Search"),
      Whole("Finished/Pre Arranged"),
      Whole("Finished/Web Sub Search") }

\* A status is Filled unless it is missing or says Unfilled.
FillStatusUnlessUnfilled(status) ==
    IF IsNA(status) \/ status = Whole("Unfilled") THEN Unfilled ELSE Filled

\* lambda x: 'Filled' if x in filled_statuses else 'Unfilled'
FillStatus(status) == IF status \in filled_statuses THEN Filled ELSE Unfilled

\* str.title(): a letter is upper-cased after a non-letter and lower-cased
\* after a letter.
Title(s) ==
    [i \in 1..Len(s) |->
        IF ~IsAlpha(s[i]) THEN s[i]
        ELSE IF i = 1 \/ ~IsAlpha(s[i - 1]) THEN ToUpper(s[i])
        ELSE ToLower(s[i])]

\* A Type that is trimmed but keeps its letter case.
CleanTypeNoTitle(type) == IF IsNA(type) THEN NA ELSE Strip(type)

\* df['Type'].str.strip().str.title(); a missing Type stays missing
CleanType(type) == IF IsNA(type) THEN NA ELSE Title(Strip(type))

\* df['Type'] + '_' + df['Fill_Status']; missing when Type is missing
TypeFillStatus(type, fill_status) ==
    IF IsNA(type) THEN NA ELSE type \o << "_" >> \o fill_status

\* The day the Excel serial number n stands for:
\* pd.to_datetime(n - 1, unit='D', origin='1900-01-01')
SerialToDatetime(n) == CivilFromDays(DaysFromCivil(1900, 1, 1) + (n - 1))

\* Job Start of one row: a numeric cell is a serial date, any other cell is
\* parsed as text.
ParseJobStart(cell) ==
    IF IsNumeric(cell) THEN SerialToDatetime(ToInt(cell))
    ELSE ToDatetime(cell)

IsWordChar(c) == IsAlpha(c) \/ IsDigit(c) \/ c = "_"

Upper(s) == [i \in 1..Len(s) |-> ToUpper(s[i])]

\* s[i:] starts with word, ignoring case
MatchesAt(s, i, word) ==
    /\ i + Len(word) - 1 <= Len(s)
    /\ Upper(SubSeq(s, i, i + Len(word) - 1)) = word

RECURSIVE SkipSpaces(_, _)
SkipSpaces(s, i) ==
    IF i <= Len(s) /\ IsSpace(s[i]) THEN SkipSpaces(s, i + 1) ELSE i

FEMALE == << "F", "E", "M", "A", "L", "E" >>
MALE   == << "M", "A", "L", "E" >>

RECURSIVE RemoveGender(_, _)
\* re.sub(r'\b(FEMALE|MALE)\s*', '', s, flags=re.IGNORECASE) from index i
RemoveGender(s, i) ==
    IF i > Len(s) THEN << >>
    ELSE LET boundary == i = 1 \/ ~IsWordChar(s[i - 1])
         IN  IF boundary /\ MatchesAt(s, i, FEMALE)
             THEN RemoveGender(s, SkipSpaces(s, i + Len(FEMALE)))
             ELSE IF boundary /\ MatchesAt(s, i, MALE)
             THEN RemoveGender(s, SkipSpaces(s, i + Len(MALE)))
             ELSE << s[i] >> \o RemoveGender(s, i + 1)

RECURSIVE CollapseSpaces(_)
\* re.sub(r'\s+', ' ', s)
CollapseSpaces(s) ==
    IF s = << >> THEN << >>
    ELSE IF IsSpace(Head(s))
    THEN << " " >> \o CollapseSpaces(LStrip(s))
    ELSE << Head(s) >> \o CollapseSpaces(Tail(s))

PARAPROFESSIONAL ==
    << "P", "A", "R", "A", "P", "R", "O", "F", "E", "S", "S", "I", "O", "N", "A", "L" >>

clean_classification_gender(classification) ==
    IF IsNA(classification) THEN classification
    ELSE LET clean_name == Strip(classification)
         IN  IF Upper(clean_name) \in { FEMALE \o << " " >> \o << "P", "A", "R", "A" >>,
                                        MALE \o << " " >> \o << "P", "A", "R", "A" >> }
             THEN PARAPROFESSIONAL
             ELSE Strip(CollapseSpaces(RemoveGender(clean_name, 1)))

\* Classification as load_and_process_data leaves it: whitespace trimmed
\* and collapsed, then the gender clean-up.
CleanClassification(classification) ==
    IF IsNA(classification) THEN classification
    ELSE clean_classification_gender(CollapseSpaces(Strip(classification)))

\* get_borough_from_location raises IndexError on a location of blanks:
\* location.strip()[0]
BoroughRaises(location) ==
    ~IsNA(location) /\ location # << >> /\ Strip(location) = << >>

get_borough_from_location(location) ==
    IF IsNA(location) \/ location = << >> THEN "Unknown"
    ELSE LET first_char == ToUpper(Strip(location)[1])
         IN  CASE first_char = "M" -> "Manhattan"
               [] first_char = "K" -> "Brooklyn"
               [] first_char = "Q" -> "Queens"
               [] first_char = "X" -> "Bronx"
               [] first_char = "R" -> "Staten Island"
               [] OTHER -> "Unknown"

\* str.replace(r'[<>:"/\\|?*]', '_', regex=True)
LocationClean(location) ==
    IF IsNA(location) THEN NA
    ELSE [i \in 1..Len(location) |->
             IF location[i] \in {"<", ">", ":", "\"", "/", "\\", "|", "?", "*"}
             THEN "_" ELSE location[i]]

\* Columns load_and_process_data reads unguarded from a non-empty table.
LoadRequired == {"Classification", "District", "Location", "Type", "Status"}

\* Columns load_and_process_data adds.
LoadAdded == {"Borough", "Location_Clean", "Fill_Status", "Type_Fill_Status"}

\* One row of the normalised table.
ProcessRow(r, cols) ==
    LET type        == CleanType(r.Type)
        fill_status == FillStatus(r.Status)
    IN  [Location         |-> r.Location,
         Classification   |-> CleanClassification(r.Classification),
         Type             |-> type,
         Status           |-> r.Status,
         District         |-> ToInt(r.District),
         Specified_Sub    |-> r.Specified_Sub,
         Job_Start        |-> IF "Job Start" \in cols
                              THEN ParseJobStart(r.Job_Start) ELSE NaT,
         Borough          |-> get_borough_from_location(r.Location),
         Location_Clean   |-> LocationClean(r.Location),
         Fill_Status      |-> fill_status,
         Type_Fill_Status |-> TypeFillStatus(type, fill_status)]

\* df.dropna(subset=['District'])
DropNaDistrict(rows) == SelectSeq(rows, LAMBDA r : ~IsNA(r.District))

\* The normalised table.
ProcessedRows(rows, cols) ==
    LET kept == DropNaDistrict(rows)
    IN  [i \in 1..Len(kept) |-> ProcessRow(kept[i], cols)]

\* The exception load_and_process_data ends with, or "none".
LoadError(rows, cols) ==
    IF rows = << >> THEN "none"
    ELSE IF LoadRequired \ cols # {} THEN "KeyError"
    ELSE IF \E i \in 1..Len(DropNaDistrict(rows)) :
                BoroughRaises(DropNaDistrict(rows)[i].Location)
    THEN "IndexError"
    ELSE "none"

----------------------------------------------------------------------------
(* create_summary_stats: counts and fill percentages by group.             *)

\* The four columns create_summary_stats expects.
Vacancy_Filled   == << "V", "a", "c", "a", "n", "c", "y", "_" >> \o Filled
Vacancy_Unfilled == << "V", "a", "c", "a", "n", "c", "y", "_" >> \o Unfilled
Absence_Filled   == << "A", "b", "s", "e", "n", "c", "e", "_" >> \o Filled
Absence_Unfilled == << "A", "b", "s", "e", "n", "c", "e", "_" >> \o Unfilled

\* expected_cols
expected_cols ==
    {Vacancy_Filled, Vacancy_Unfilled, Absence_Filled, Absence_Unfilled}

\* The text of a borough name, as the group keys are compared and sorted.
BoroughText(borough) ==
    CASE borough = "Manhattan" ->
            << "M", "a", "n", "h", "a", "t", "t", "a", "n" >>
      [] borough = "Brooklyn" ->
            << "B", "r", "o", "o", "k", "l", "y", "n" >>
      [] borough = "Queens" -> << "Q", "u", "e", "e", "n", "s" >>
      [] borough = "Bronx" -> << "B", "r", "o", "n", "x" >>
      [] borough = "Staten Island" ->
            << "S", "t", "a", "t", "e", "n", " ", "I", "s", "l", "a", "n", "d" >>
      [] OTHER -> << "U", "n", "k", "n", "o", "w", "n" >>

\* The cell of row r in column col, as text.
Cell(r, col) == IF col = "Borough" THEN BoroughText(r.Borough) ELSE r[col]

\* group_cols_for_processing
GroupColsForProcessing(cols) == cols \o << "Classification" >>

\* The group key of a record: its cells in the grouping columns.
GroupKey(r, keys) == [i \in 1..Len(keys) |-> Cell(r, keys[i])]

\* A grouping that also drops the records with 'Unknown' in a grouping
\* column.
GroupedKnownOnly(df, keys) ==
    SelectSeq(df, LAMBDA r :
        /\ \A i \in 1..Len(keys) :
              /\ ~IsNA(Cell(r, keys[i]))
              /\ Cell(r, keys[i]) # BoroughText("Unknown")
        /\ ~IsNA(r.Type_Fill_Status))

\* The records groupby keeps: no missing cell in a grouping column or in
\* Type_Fill_Status (groupby drops missing keys).
Grouped(df, keys) ==
    SelectSeq(df, LAMBDA r :
        /\ \A i \in 1..Len(keys) : ~IsNA(Cell(r, keys[i]))
        /\ ~IsNA(r.Type_Fill_Status))

\* A count that ignores the group: every record of the bucket.
CountAnyGroup(df, keys, k, bucket) ==
    Cardinality({i \in 1..Len(df) : df[i].Type_Fill_Status = bucket})

\* One cell of the pivot: the records of group k in the bucket; 0 fills
\* an empty cell and a column that is absent.
Count(df, keys, k, bucket) ==
    Cardinality({i \in 1..Len(Grouped(df, keys)) :
                    /\ GroupKey(Grouped(df, keys)[i], keys) = k
                    /\ Grouped(df, keys)[i].Type_Fill_Status = bucket})

\* a + b of two count columns
TotalOf(a, b) == a + b

\* round(1) of num / den * 100, in tenths of a percent, ties to even.
Round1(num, den) ==
    LET q == (num * 1000) \div den
        r == (num * 1000) % den
    IN  IF 2 * r > den \/ (2 * r = den /\ q % 2 = 1) THEN q + 1 ELSE q

\* filled / total * 100 of pandas columns: a zero total gives NaN or inf,
\* never an exception.
Divide(filled, total) ==
    IF total = 0 THEN [nan |-> TRUE, tenths |-> 0]
    ELSE [nan |-> FALSE, tenths |-> Round1(filled, total)]

\* A percentage that divides whatever the total is.
FillPctUnguarded(filled, total) == Divide(filled, total)

\* np.where(total > 0, (filled / total * 100).round(1), 0)
FillPct(filled, total) ==
    IF total > 0 THEN Divide(filled, total)
    ELSE [nan |-> FALSE, tenths |-> 0]

\* An overall percentage of the jobs per filled job.
OverallPerFilled(vacancy_filled, absence_filled, total) ==
    FillPct(total, vacancy_filled + absence_filled)

\* Overall_Fill_Pct
OverallFillPct(vacancy_filled, absence_filled, total) ==
    FillPct(vacancy_filled + absence_filled, total)

\* A total of the vacancies alone.
TotalVacancyOnly(total_vacancy, total_absence) == total_vacancy

\* Total
Total(total_vacancy, total_absence) == TotalOf(total_vacancy, total_absence)

\* One row of the summary.
SummaryRow(df, cols, k) ==
    LET keys == GroupColsForProcessing(cols)
        vf   == Count(df, keys, k, Vacancy_Filled)
        vu   == Count(df, keys, k, Vacancy_Unfilled)
        af   == Count(df, keys, k, Absence_Filled)
        au   == Count(df, keys, k, Absence_Unfilled)
        tv   == TotalOf(vf, vu)
        ta   == TotalOf(af, au)
        t    == Total(tv, ta)
    IN  [Group            |-> SubSeq(k, 1, Len(cols)),
         Classification   |-> k[Len(keys)],
         Vacancy_Filled   |-> vf,
         Vacancy_Unfilled |-> vu,
         Total_Vacancy    |-> tv,
         Vacancy_Fill_Pct |-> FillPct(vf, tv),
         Absence_Filled   |-> af,
         Absence_Unfilled |-> au,
         Total_Absence    |-> ta,
         Absence_Fill_Pct |-> FillPct(af, ta),
         Total_Filled     |-> TotalOf(vf, af),
         Total_Unfilled   |-> TotalOf(vu, au),
         Total            |-> t,
         Overall_Fill_Pct |-> OverallFillPct(vf, af, t)]

RECURSIVE KeyLess(_, _)
\* a < b for index tuples
KeyLess(a, b) ==
    IF a = << >> \/ b = << >> THEN FALSE
    ELSE IF Head(a) # Head(b) THEN StrLess(Head(a), Head(b))
    ELSE KeyLess(Tail(a), Tail(b))

RECURSIVE SortKeys(_)
\* The index of the pivot table: the group keys in ascending order.
SortKeys(S) ==
    IF S = {} THEN << >>
    ELSE LET least == CHOOSE k \in S : \A o \in S \ {k} : KeyLess(k, o)
         IN  << least >> \o SortKeys(S \ {least})

\* The DataFrame create_summary_stats returns.
SummaryStats(df, cols) ==
    LET keys  == GroupColsForProcessing(cols)
        kept  == Grouped(df, keys)
        index == SortKeys({GroupKey(kept[i], keys) : i \in 1..Len(kept)})
    IN  [i \in 1..Len(index) |-> SummaryRow(df, cols, index[i])]

----------------------------------------------------------------------------
(* load_superintendent_mapping and add_superintendent_info.                *)

DbnPrefixLen == 2

DistrictWidth == 2

\* The literal 'Unknown' of an added column.
Unknown == << "U", "n", "k", "n", "o", "w", "n" >>

\* pd.read_csv reads a column of whole numbers as int64, and as float64
\* as soon as one of its cells is empty.
DistIsFloat(ref) == \E i \in 1..Len(ref) : IsNA(ref[i].Dist)

\* df['Dist'].astype(str): '75' of an int64 cell, '75.0' of a float64 one.
DistText(dist, as_float) ==
    IF IsNA(dist) THEN Str(dist)
    ELSE IF as_float THEN dist \o << ".", "0" >>
    ELSE dist

\* df['Dist'].astype(str).str.zfill(2), then .replace('75', '97')
MappingDistrict(dist, as_float) ==
    LET district == ZFill(DistText(dist, as_float), DistrictWidth)
    IN  IF district = << "7", "5" >> THEN << "9", "7" >> ELSE district

\* One row of mapping_df, from one row of the reference file.
MappingRow(r, as_float) ==
    [DBN            |-> r.DBN,
     District       |-> MappingDistrict(r.Dist, as_float),
     Borough        |-> r.Boro,
     Location       |-> IF IsNA(r.DBN) THEN NA
                        ELSE DropFirst(r.DBN, DbnPrefixLen),
     Superintendent |-> r.Superintendent,
     School_Name    |-> r.School_Name]

\* mapping_df.dropna(subset=['DBN', 'Superintendent'])
DropNaMapping(rows) ==
    SelectSeq(rows, LAMBDA r : ~IsNA(r.DBN) /\ ~IsNA(r.Superintendent))

\* A removal of duplicates that keeps the last row of each location.
DropDuplicatesKeepLast(rows) ==
    LET keep == {i \in 1..Len(rows) :
                    \A j \in (i + 1)..Len(rows) :
                        rows[j].Location # rows[i].Location}
        F[i \in 0..Len(rows)] ==
            IF i = 0 THEN << >>
            ELSE IF i \in keep THEN Append(F[i - 1], rows[i]) ELSE F[i - 1]
    IN  F[Len(rows)]

\* mapping_df.drop_duplicates(subset=['Location'], keep='first')
DropDuplicates(rows) ==
    LET keep == {i \in 1..Len(rows) :
                    \A j \in 1..(i - 1) : rows[j].Location # rows[i].Location}
        F[i \in 0..Len(rows)] ==
            IF i = 0 THEN << >>
            ELSE IF i \in keep THEN Append(F[i - 1], rows[i]) ELSE F[i - 1]
    IN  F[Len(rows)]

\* The DataFrame load_superintendent_mapping returns for a reference file.
SuperintendentMapping(ref) ==
    DropDuplicates(DropNaMapping(
        [i \in 1..Len(ref) |-> MappingRow(ref[i], DistIsFloat(ref))]))

\* A lookup of the reference file that never raises.
NeverRaises(found) == FALSE

\* glob finds no file with the prefix: raise FileNotFoundError
RaisesFileNotFound(found) == ~found

\* df['DBN'].str[2:] of a column with no string in it (every DBN missing)
\* raises: the .str accessor needs string values.
MappingError(ref) ==
    IF ref # << >> /\ \A i \in 1..Len(ref) : IsNA(ref[i].DBN)
    THEN "AttributeError" ELSE "none"

RECURSIVE create_school_mapping_dict(_)
\* school_dict[location] = {...} for each row in turn
create_school_mapping_dict(rows) ==
    IF rows = << >> THEN EmptyDict
    ELSE LET row == rows[Len(rows)]
         IN  Put(create_school_mapping_dict(SubSeq(rows, 1, Len(rows) - 1)),
                 row.Location,
                 [district       |-> row.District,
                  borough        |-> row.Borough,
                  superintendent |-> row.Superintendent,
                  dbn            |-> row.DBN,
                  school_name    |-> row.School_Name])

\* A lookup that leaves the cell empty when the location is not mapped.
LookupOrNA(school_info, x, field) ==
    IF x \in DOMAIN school_info THEN school_info[x][field] ELSE NA

\* school_info.get(x, {}).get(field, 'Unknown')
Lookup(school_info, x, field) ==
    IF x \in DOMAIN school_info THEN school_info[x][field] ELSE Unknown

\* Columns add_superintendent_info adds.
EnrichAdded ==
    {"Superintendent_Name", "District_From_Mapping", "Borough_From_Mapping",
     "DBN", "School_Name_Full"}

\* One row of the enriched table.
EnrichRow(r, school_info) ==
    r @@ [Superintendent_Name   |-> Lookup(school_info, r.Location, "superintendent"),
          District_From_Mapping |-> Lookup(school_info, r.Location, "district"),
          Borough_From_Mapping  |-> Lookup(school_info, r.Location, "borough"),
          DBN                   |-> Lookup(school_info, r.Location, "dbn"),
          School_Name_Full      |-> Lookup(school_info, r.Location, "school_name")]

----------------------------------------------------------------------------
(* Input rows of the model.                                                *)

M015    == << "M", "0", "1", "5" >>
DBNM015 == << "0", "2", "M", "0", "1", "5" >>
K100sp  == << "K", "1", "0", "0", " " >>

Vacancy == << "V", "a", "c", "a", "n", "c", "y" >>
Absence == << "A", "b", "s", "e", "n", "c", "e" >>
PARA    == << "P", "A", "R", "A" >>

Id42      == << "4", "2" >>
Id42Float == << "4", "2", ".", "0" >>
Id42Pad   == << "0", "0", "4", "2" >>
Id7       == << "7" >>
IdText    == << "a", "b" >>

\* 14 September 2023 as an Excel serial number under the code's origin, as
\* ISO text and as US text; 15 September 2023; text that is no date.
Sep14Serial == << "4", "5", "1", "8", "2" >>
Sep14Iso    == << "2", "0", "2", "3", "-", "0", "9", "-", "1", "4" >>
Sep14Us     == << "9", "/", "1", "4", "/", "2", "0", "2", "3" >>
Sep15Iso    == << "2", "0", "2", "3", "-", "0", "9", "-", "1", "5" >>
NoDate      == << "n", "/", "a" >>

AdminAssigned == Whole("Finished/Admin Assigned")
NoFill        == Whole("Unfilled")

CsvCols ==
    {"Location", "Classification", "Type", "Status", "District",
     "Specified Sub", "Job Start"}

CsvRow(location, type, status, district, sub, job_start) ==
    [Location       |-> location,
     Classification |-> PARA,
     Type           |-> type,
     Status         |-> status,
     District       |-> district,
     Specified_Sub  |-> sub,
     Job_Start      |-> job_start]

\* A Vacancy row of district 5.
JobRow(location, status, sub, job_start) ==
    CsvRow(location, Vacancy, status, << "5" >>, sub, job_start)

\* Primary rows for the matcher: rows that get a job id at each location,
\* the same job in other formats, a second person, and rows each filter
\* drops.
CsvRowSamples ==
    {JobRow(l, AdminAssigned, Id42, Sep14Serial) : l \in {M015, DBNM015, K100sp}}
    \cup {JobRow(M015, AdminAssigned, Id42Float, Sep14Iso),
          JobRow(M015, AdminAssigned, Id7, Sep14Us),
          JobRow(M015, AdminAssigned, NA, Sep14Serial),
          JobRow(DBNM015, AdminAssigned, NA, Sep14Serial),
          JobRow(M015, AdminAssigned, IdText, Sep14Serial),
          JobRow(M015, AdminAssigned, Id42, NoDate),
          JobRow(M015, NoFill, Id42, Sep14Serial),
          JobRow(K100sp, NoFill, Id42, Sep14Serial)}

SreppRow(school, eisid, date) ==
    [SCHOOL |-> school, EISID |-> eisid, DATE |-> date]

SchoolM015 == << "0", "2", "M", "0", "1", "5" >>
SchoolK100 == << "0", "2", "K", "1", "0", "0" >>
SchoolX999 == << "0", "2", "X", "9", "9", "9" >>

\* Payroll rows for the matcher.
SreppRowSamples ==
    {SreppRow(sc, Id42Pad, Sep14Iso) : sc \in {SchoolM015, SchoolK100, SchoolX999}}
    \cup {SreppRow(SchoolM015, Id42, Sep14Us),
          SreppRow(SchoolM015, Id7, Sep15Iso),
          SreppRow(SchoolM015, NA, Sep14Iso),
          SreppRow(SchoolM015, IdText, Sep14Iso),
          SreppRow(SchoolM015, Id42, NoDate)}

----------------------------------------------------------------------------
(* The run: rows arrive, the primary table is normalised, the two tables   *)
(* are matched.                                                            *)

NoResults ==
    /\ subcentral_jobs = EmptyDict
    /\ subcentral_totals = EmptyDict
    /\ srepp_jobs = EmptyDict
    /\ srepp_totals = EmptyDict
    /\ location_mapping = EmptyDict
    /\ matching_df = << >>
    /\ error = "none"
    /\ group_cols = << >>
    /\ summary_stats = << >>
    /\ ref_df = << >>
    /\ mapping_df = << >>
    /\ fn_name = "none"
    /\ fn_arg = << >>
    /\ fn_out = << >>
    /\ ref_found = TRUE
    /\ csv_file_paths = << >>
    /\ force_regenerate = FALSE
    /\ citywide_stats = << >>
    /\ borough_stats = << >>
    /\ superintendent_stats = << >>
    /\ school_stats = << >>
    /\ calls = << >>
    /\ superintendents = << >>
    /\ boroughs = << >>
    /\ disk = {}
    /\ written = {}
    /\ run = 1

Init ==
    /\ pc = "input"
    /\ csv_cols = CsvCols
    /\ csv_rows = << >>
    /\ main_df = << >>
    /\ main_cols = {}
    /\ srepp_df = << >>
    /\ srepp_cols = PayrollRequired
    /\ NoResults

\* One more row in the primary extracts.
AppendCsvRow(r) ==
    /\ pc = "input"
    /\ Len(csv_rows) + Len(srepp_df) < MaxRows
    /\ csv_rows' = Append(csv_rows, r)
    /\ UNCHANGED statsVars
    /\ UNCHANGED runVars
    /\ UNCHANGED <<pc, csv_cols, main_df, main_cols, srepp_df, srepp_cols,
                   subcentral_jobs, subcentral_totals, srepp_jobs,
                   srepp_totals, location_mapping, matching_df, error>>

\* One more row in the payroll extracts.
AppendSreppRow(r) ==
    /\ pc \in {"input", "call"}
    /\ Len(csv_rows) + Len(main_df) + Len(srepp_df) < MaxRows
    /\ srepp_df' = Append(srepp_df, r)
    /\ UNCHANGED statsVars
    /\ UNCHANGED runVars
    /\ UNCHANGED <<pc, csv_cols, csv_rows, main_df, main_cols, srepp_cols,
                   subcentral_jobs, subcentral_totals, srepp_jobs,
                   srepp_totals, location_mapping, matching_df, error>>

AddCsvRow == \E r \in CsvRowSamples : AppendCsvRow(r)

AddSreppRow == \E r \in SreppRowSamples : AppendSreppRow(r)

load_and_process_data ==
    /\ pc = "input"
    /\ LET err == LoadError(csv_rows, csv_cols)
       IN  IF err # "none"
           THEN /\ pc' = "raised"
                /\ error' = err
                /\ UNCHANGED <<main_df, main_cols>>
           ELSE /\ pc' = "loaded"
                /\ main_df' = ProcessedRows(csv_rows, csv_cols)
                /\ main_cols' = IF csv_rows = << >> THEN csv_cols
                                ELSE csv_cols \cup LoadAdded
                /\ UNCHANGED error
    /\ UNCHANGED statsVars
    /\ UNCHANGED runVars
    /\ UNCHANGED <<csv_cols, csv_rows, srepp_df, srepp_cols,
                   subcentral_jobs, subcentral_totals, srepp_jobs,
                   srepp_totals, location_mapping, matching_df>>

\* A table whose rows are written through a second name for it: the
\* caller sees the writes.
Aliased(df, working) == working

\* main_df[...].copy() and srepp_df.copy(): what the caller's table holds
\* once the copy has been filtered and given its new columns.
CopyOf(df, working) == df

create_matching_analysis ==
    /\ pc \in {"loaded", "call"}
    /\ main_df' = CopyOf(main_df, SubcentralFilledJobs(main_df, main_cols))
    /\ srepp_df' = CopyOf(srepp_df, ValidSrepp(srepp_df))
    /\ UNCHANGED <<csv_cols, csv_rows, main_cols, srepp_cols>>
    /\ UNCHANGED statsVars
    /\ UNCHANGED runVars
    /\ IF main_df = << >> /\ srepp_df = << >>
       THEN /\ pc' = "matched"
            /\ UNCHANGED <<subcentral_jobs, subcentral_totals, srepp_jobs,
                           srepp_totals, location_mapping, matching_df, error>>
       ELSE IF main_df # << >> /\ "Fill_Status" \notin main_cols
       THEN /\ pc' = "raised"
            /\ error' = "KeyError"
            /\ UNCHANGED <<subcentral_jobs, subcentral_totals, srepp_jobs,
                           srepp_totals, location_mapping, matching_df>>
       ELSE
        LET sub_jobs   == SubcentralJobs(main_df, main_cols)
            sub_totals == SubcentralTotals(main_df, main_cols)
        IN  /\ subcentral_jobs' = sub_jobs
            /\ subcentral_totals' = sub_totals
            /\ IF ReadsMainLocation(main_df, srepp_df, srepp_cols)
                  /\ "Location" \notin main_cols
               THEN \* main_df['Location'] of a table without that column
                    /\ pc' = "raised"
                    /\ error' = "KeyError"
                    /\ UNCHANGED <<srepp_jobs, srepp_totals, location_mapping,
                                   matching_df>>
               ELSE
                LET pay_jobs      == SreppJobs(main_df, srepp_df, srepp_cols)
                    pay_totals    == SreppTotals(main_df, srepp_df, srepp_cols)
                    all_locations == AllLocations(sub_totals, pay_totals)
                IN  /\ srepp_jobs' = pay_jobs
                    /\ srepp_totals' = pay_totals
                    /\ location_mapping' =
                          IF ReadsMainLocation(main_df, srepp_df, srepp_cols)
                             \/ (~SreppSkipped(srepp_df, srepp_cols)
                                 /\ Len(ValidSrepp(srepp_df)) > 0)
                          THEN LocationMapping(main_df)
                          ELSE EmptyDict
                    /\ \E order \in IterationOrders(all_locations) :
                          LET df == MatchingDf(order, sub_jobs, sub_totals,
                                               pay_jobs, pay_totals)
                          IN  IF \E i \in 1..Len(df) :
                                     df[i].Match_Percentage.den = 0
                              THEN /\ pc' = "raised"
                                   /\ error' = "ZeroDivisionError"
                                   /\ UNCHANGED matching_df
                              ELSE /\ pc' = "matched"
                                   /\ matching_df' = df
                                   /\ UNCHANGED error

Next ==
    \/ AddCsvRow
    \/ AddSreppRow
    \/ load_and_process_data
    \/ create_matching_analysis

Spec == Init /\ [][Next]_vars

----------------------------------------------------------------------------
(* A direct call of create_matching_analysis on tables of any schema:      *)
(* each of the six required columns may be missing.                        *)

\* Primary rows of a direct call: one filled job with an id, one unfilled.
MainRowSamples ==
    {ProcessRow(r, CsvCols) :
        r \in {JobRow(M015, AdminAssigned, Id42, Sep14Serial),
               JobRow(M015, NoFill, Id42, Sep14Serial)}}

\* Payroll rows of a direct call: one that maps to M015, one that maps to
\* no primary location.
SreppCallSamples ==
    {SreppRow(SchoolM015, Id42Pad, Sep14Iso),
     SreppRow(SchoolX999, Id42Pad, Sep14Iso)}

InitCall ==
    /\ pc = "call"
    /\ csv_cols = CsvCols
    /\ csv_rows = << >>
    /\ main_df = << >>
    /\ \E missing \in SUBSET PrimaryRequired :
          main_cols = (CsvCols \cup LoadAdded) \ missing
    /\ srepp_df = << >>
    /\ \E missing \in SUBSET PayrollRequired :
          srepp_cols = (PayrollRequired \cup {"Source_File"}) \ missing
    /\ NoResults

AddMainRow ==
    /\ pc = "call"
    /\ Len(main_df) + Len(srepp_df) < MaxRows
    /\ \E r \in MainRowSamples : main_df' = Append(main_df, r)
    /\ UNCHANGED statsVars
    /\ UNCHANGED runVars
    /\ UNCHANGED <<pc, csv_cols, csv_rows, main_cols, srepp_df, srepp_cols,
                   subcentral_jobs, subcentral_totals, srepp_jobs,
                   srepp_totals, location_mapping, matching_df, error>>

AddSreppCallRow == \E r \in SreppCallSamples : AppendSreppRow(r)

NextCall ==
    \/ AddMainRow
    \/ AddSreppCallRow
    \/ create_matching_analysis

SpecCall == InitCall /\ [][NextCall]_vars

----------------------------------------------------------------------------
(* Normalisation of primary rows of any Type and Status.                   *)

VACANCY == << "V", "A", "C", "A", "N", "C", "Y" >>
ABSENCE == << "A", "B", "S", "E", "N", "C", "E" >>
absence == << " ", "a", "b", "s", "e", "n", "c", "e", " " >>
Leave   == << "L", "e", "a", "v", "e" >>
Blank   == << " ", " " >>

\* The other whitelisted statuses, and statuses that differ from a
\* whitelisted one in letter case, by a trailing blank or by their end.
StatusSamples ==
    { Whole("Finished/IVR Assigned"), Whole("Finished/IVR Sub Search"),
      Whole("Finished/Pre Arranged"), Whole("Finished/Web Sub Search"),
      Whole("finished/admin assigned"), Whole("Finished/Admin Assigned "),
      Whole("Finished") }

\* Job Start cells that are numbers: 61 (1 March 1900 in a spreadsheet),
\* 45000 and 45000.0 (15 March 2023).
SerialSamples ==
    { << "6", "1" >>, << "4", "5", "0", "0", "0" >>,
      << "4", "5", "0", "0", "0", ".", "0" >> }

LoadRowSamples ==
    {CsvRow(M015, t, st, << "5" >>, Id42, Sep14Serial) :
        t \in {Vacancy, VACANCY, absence, Leave, NA},
        st \in {AdminAssigned, NoFill, NA}}
    \cup {CsvRow(M015, Vacancy, AdminAssigned, NA, Id42, Sep14Serial),
          CsvRow(Blank, Vacancy, AdminAssigned, << "5" >>, Id42, Sep14Serial),
          CsvRow(NA, Vacancy, AdminAssigned, << "5" >>, Id42, Sep14Iso)}
    \cup {CsvRow(M015, Vacancy, st, << "5" >>, Id42, Sep14Iso) :
              st \in StatusSamples}
    \cup {CsvRow(M015, Vacancy, AdminAssigned, << "5" >>, Id42, n) :
              n \in SerialSamples}

AddLoadRow ==
    /\ Len(csv_rows) < MaxLoadRows
    /\ \E r \in LoadRowSamples : AppendCsvRow(r)

NextLoad ==
    \/ AddLoadRow
    \/ load_and_process_data
    \/ create_matching_analysis

SpecLoad == Init /\ [][NextLoad]_vars

----------------------------------------------------------------------------
(* Summary statistics of a normalised table, by each grouping main uses    *)
(* on the columns the normaliser provides.                                 *)

K100       == << "K", "1", "0", "0" >>
FemalePara == << "F", "E", "M", "A", "L", "E", " ", "P", "A", "R", "A" >>

StatsRow(location, classification, type, status) ==
    [Location       |-> location,
     Classification |-> classification,
     Type           |-> type,
     Status         |-> status,
     District       |-> << "5" >>,
     Specified_Sub  |-> Id42,
     Job_Start      |-> Sep14Iso]

\* Records of every bucket in one group, records of other groups, and
\* records with a missing Type, Status, Classification or Location or with
\* a Type that is neither Vacancy nor Absence.
StatsRowSamples ==
    { StatsRow(M015, PARA, Vacancy, AdminAssigned),
      StatsRow(M015, PARA, Vacancy, NoFill),
      StatsRow(M015, PARA, Absence, AdminAssigned),
      StatsRow(M015, PARA, absence, NA),
      StatsRow(M015, PARA, Leave, AdminAssigned),
      StatsRow(M015, PARA, NA, AdminAssigned),
      StatsRow(K100, PARA, Vacancy, AdminAssigned),
      StatsRow(M015, FemalePara, Absence, NoFill),
      StatsRow(M015, NA, Vacancy, AdminAssigned),
      StatsRow(NA, PARA, Vacancy, AdminAssigned) }

\* group_cols of the calls: citywide, by borough, by school.
GroupColsSamples ==
    { << >>, << "Borough" >>, << "Location" >>, << "Borough", "Location" >> }

AddStatsRow ==
    /\ Len(csv_rows) < MaxStatsRows
    /\ \E r \in StatsRowSamples : AppendCsvRow(r)

\* create_summary_stats(df, cols) on the table main passes: main returns
\* before the call when the table is empty.
create_summary_stats ==
    /\ pc \in {"loaded", "matched"}
    /\ main_df # << >>
    /\ \E cols \in GroupColsSamples :
          /\ group_cols' = cols
          /\ IF \E i \in 1..Len(cols) : cols[i] \notin main_cols
             THEN /\ pc' = "raised"
                  /\ error' = "KeyError"
                  /\ UNCHANGED summary_stats
             ELSE /\ pc' = "summarised"
                  /\ summary_stats' = SummaryStats(main_df, cols)
                  /\ UNCHANGED error
    /\ UNCHANGED <<csv_cols, csv_rows, main_df, main_cols, srepp_df, srepp_cols,
                   subcentral_jobs, subcentral_totals, srepp_jobs,
                   srepp_totals, location_mapping, matching_df>>
    /\ UNCHANGED <<ref_df, mapping_df, fn_name, fn_arg, fn_out>>
    /\ UNCHANGED runVars

NextStats ==
    \/ AddStatsRow
    \/ load_and_process_data
    \/ create_summary_stats

SpecStats == Init /\ [][NextStats]_vars

----------------------------------------------------------------------------
(* The helper functions called on their own, on any argument.              *)

male   == << "m", "a", "l", "e" >>
AIDE   == << "A", "I", "D", "E" >>
Space  == << " " >>
Hyphen == << "-" >>

\* The pieces classification names are made of.
ClassificationTokens == {MALE, FEMALE, male, PARA, AIDE, Space, Hyphen}

RECURSIVE Flatten(_)
Flatten(pieces) ==
    IF pieces = << >> THEN << >> ELSE Head(pieces) \o Flatten(Tail(pieces))

\* Every text of at most MaxTokens pieces, and the missing value.
ClassificationSamples ==
    {NA} \cup
    UNION {{Flatten(pieces) : pieces \in [1..n -> ClassificationTokens]} :
              n \in 0..MaxTokens}

\* Missing, empty and blank locations, locations of each borough in either
\* letter case and with a leading blank, and locations of no borough.
LocationSamples ==
    { NA, << >>, Blank, << " " >>, M015, K100sp, DBNM015,
      << "k", "1", "0", "0" >>, << " ", "Q", "2" >>, << "X", "9" >>,
      << "r", "5" >>, << "Z", "9" >> }

tableVars == <<csv_cols, csv_rows, main_df, main_cols, srepp_df, srepp_cols,
               subcentral_jobs, subcentral_totals, srepp_jobs, srepp_totals,
               location_mapping, matching_df>>

\* clean_classification_gender(c)
call_clean_classification_gender ==
    /\ pc = "input"
    /\ fn_name = "none"
    /\ \E c \in ClassificationSamples :
          /\ fn_arg' = c
          /\ fn_out' = << clean_classification_gender(c) >>
    /\ fn_name' = "clean_classification_gender"
    /\ UNCHANGED <<pc, error, tableVars, group_cols, summary_stats,
                   ref_df, mapping_df>>
    /\ UNCHANGED runVars

\* clean_classification_gender applied to its own result
call_clean_classification_gender_again ==
    /\ pc = "input"
    /\ fn_name = "clean_classification_gender"
    /\ Len(fn_out) = 1
    /\ fn_out' = Append(fn_out, clean_classification_gender(fn_out[1]))
    /\ UNCHANGED <<pc, error, tableVars, group_cols, summary_stats,
                   ref_df, mapping_df, fn_name, fn_arg>>
    /\ UNCHANGED runVars

\* get_borough_from_location(location)
call_get_borough_from_location ==
    /\ pc = "input"
    /\ fn_name = "none"
    /\ \E location \in LocationSamples :
          /\ fn_arg' = location
          /\ IF BoroughRaises(location)
             THEN /\ pc' = "raised"
                  /\ error' = "IndexError"
                  /\ fn_out' = << >>
             ELSE /\ fn_out' = << get_borough_from_location(location) >>
                  /\ UNCHANGED <<pc, error>>
    /\ fn_name' = "get_borough_from_location"
    /\ UNCHANGED <<tableVars, group_cols, summary_stats, ref_df, mapping_df>>
    /\ UNCHANGED runVars

NextHelpers ==
    \/ call_clean_classification_gender
    \/ call_clean_classification_gender_again
    \/ call_get_borough_from_location

SpecHelpers == Init /\ [][NextHelpers]_vars

----------------------------------------------------------------------------
(* Enrichment of a normalised table from a reference file.                 *)

RefRow(dbn, dist, superintendent) ==
    [DBN            |-> dbn,
     Dist           |-> dist,
     Boro           |-> IF IsNA(dbn) THEN NA ELSE << dbn[3] >>,
     Superintendent |-> superintendent,
     School_Name    |-> IF IsNA(dbn) THEN NA ELSE Whole("School") \o dbn]

\* Three reference rows for location K100 with three units, one for M015,
\* one for K100 with no superintendent, one with no identifier, one with
\* no unit code.
RefRowSamples ==
    { RefRow(<< "1", "7", "K", "1", "0", "0" >>, << "1", "7" >>, Whole("A")),
      RefRow(<< "1", "8", "K", "1", "0", "0" >>, << "1", "8" >>, Whole("B")),
      RefRow(<< "7", "5", "K", "1", "0", "0" >>, << "7", "5" >>, Whole("C")),
      RefRow(<< "0", "2", "M", "0", "1", "5" >>, << "2" >>, Whole("A")),
      RefRow(<< "1", "9", "K", "1", "0", "0" >>, << "1", "9" >>, NA),
      RefRow(NA, << "5" >>, Whole("D")),
      RefRow(<< "3", "1", "R", "0", "0", "1" >>, NA, Whole("B")) }

\* Records at K100, at M015 and at a location the reference file lacks.
EnrichRowSamples ==
    { StatsRow(K100, PARA, Vacancy, AdminAssigned),
      StatsRow(M015, PARA, Absence, NoFill),
      StatsRow(K100sp, PARA, Vacancy, AdminAssigned) }

AddEnrichRow ==
    /\ Len(csv_rows) < MaxLoadRows
    /\ \E r \in EnrichRowSamples : AppendCsvRow(r)

\* One more row in the reference file.
AddRefRow ==
    /\ pc = "input"
    /\ Len(ref_df) < MaxRefRows
    /\ \E r \in RefRowSamples : ref_df' = Append(ref_df, r)
    /\ UNCHANGED <<pc, error, tableVars, group_cols, summary_stats,
                   mapping_df, fn_name, fn_arg, fn_out>>
    /\ UNCHANGED runVars

\* load_superintendent_mapping(), called by main on a table with rows.
load_superintendent_mapping ==
    /\ pc \in {"loaded", "matched"}
    /\ main_df # << >>
    /\ IF RaisesFileNotFound(ref_found)
       THEN
            /\ pc' = "raised"
            /\ error' = "FileNotFoundError"
            /\ UNCHANGED mapping_df
       ELSE IF MappingError(ref_df) # "none"
       THEN /\ pc' = "raised"
            /\ error' = MappingError(ref_df)
            /\ UNCHANGED mapping_df
       ELSE /\ pc' = "mapped"
            /\ mapping_df' = SuperintendentMapping(ref_df)
            /\ UNCHANGED error
    /\ UNCHANGED <<tableVars, group_cols, summary_stats, ref_df,
                   fn_name, fn_arg, fn_out>>
    /\ UNCHANGED runVars

\* add_superintendent_info(df, mapping_df)
add_superintendent_info ==
    /\ pc = "mapped"
    /\ pc' = "enriched"
    /\ LET school_info == create_school_mapping_dict(mapping_df)
       IN  main_df' = [i \in 1..Len(main_df) |->
                          EnrichRow(main_df[i], school_info)]
    /\ main_cols' = main_cols \cup EnrichAdded
    /\ UNCHANGED <<csv_cols, csv_rows, srepp_df, srepp_cols,
                   subcentral_jobs, subcentral_totals, srepp_jobs,
                   srepp_totals, location_mapping, matching_df, error>>
    /\ UNCHANGED statsVars
    /\ UNCHANGED runVars

NextEnrich ==
    \/ AddEnrichRow
    \/ AddRefRow
    \/ load_and_process_data
    \/ load_superintendent_mapping
    \/ add_superintendent_info

SpecEnrich == Init /\ [][NextEnrich]_vars

----------------------------------------------------------------------------
(* load_and_process_data from the files: each file is read, the payroll    *)
(* files apart from the primary ones.                                      *)

\* filename in ['SREPP1.csv', 'SREPP2.csv']
PayrollNames == {"SREPP1.csv", "SREPP2.csv"}

\* A file: its basename, whether pd.read_csv reads it, whether it has ten
\* columns or more, and its lines after the header.
CsvFile(filename, readable, wide, lines) ==
    [filename |-> filename, readable |-> readable, wide |-> wide,
     lines |-> lines]

\* The rows read from a payroll file: skiprows=[1] drops the line after the
\* header of a file of ten columns or more; Source_File is added.
ReadSrepp(f) ==
    LET lines == IF f.wide /\ f.lines # << >> THEN Tail(f.lines) ELSE f.lines
    IN  [i \in 1..Len(lines) |-> lines[i] @@ [Source_File |-> f.filename]]

RECURSIVE SreppUntilFailure(_)
\* A loop over the payroll files that stops at the first one that fails.
SreppUntilFailure(files) ==
    IF files = << >> THEN << >>
    ELSE LET f == Head(files)
         IN  IF f.filename \notin PayrollNames
             THEN SreppUntilFailure(Tail(files))
             ELSE IF ~f.readable THEN << >>
             ELSE ReadSrepp(f) \o SreppUntilFailure(Tail(files))

RECURSIVE SreppDataframes(_)
\* pd.concat(srepp_dataframes): the payroll files that were read, in turn;
\* a payroll file that raises is skipped (continue).
SreppDataframes(files) ==
    IF files = << >> THEN << >>
    ELSE LET f == Head(files)
         IN  IF f.filename \notin PayrollNames \/ ~f.readable
             THEN SreppDataframes(Tail(files))
             ELSE ReadSrepp(f) \o SreppDataframes(Tail(files))

RECURSIVE MainDataframes(_)
\* pd.concat(main_dataframes): the primary files, in turn.  Source_File,
\* which no later stage reads, is left out of the primary rows.
MainDataframes(files) ==
    IF files = << >> THEN << >>
    ELSE LET f == Head(files)
         IN  IF f.filename \in PayrollNames
             THEN MainDataframes(Tail(files))
             ELSE f.lines \o MainDataframes(Tail(files))

\* pd.read_csv of a primary file is outside any try.
MainFileRaises(files) ==
    \E i \in 1..Len(files) :
        files[i].filename \notin PayrollNames /\ ~files[i].readable

\* A note line such as the one under the header of a wide payroll file.
NoteLine == SreppRow(NA, NA, NA)

\* Primary and payroll files that load, and ones that do not.
CsvFileSamples ==
    { CsvFile("jobs.csv", TRUE, FALSE,
              << JobRow(M015, AdminAssigned, Id42, Sep14Iso) >>),
      CsvFile("more_jobs.csv", FALSE, FALSE, << >>),
      CsvFile("SREPP1.csv", TRUE, FALSE,
              << SreppRow(SchoolM015, Id42Pad, Sep14Iso) >>),
      CsvFile("SREPP1.csv", FALSE, FALSE, << >>),
      CsvFile("SREPP2.csv", TRUE, TRUE,
              << NoteLine, SreppRow(SchoolK100, Id42Pad, Sep14Iso) >>),
      CsvFile("SREPP2.csv", FALSE, TRUE, << >>) }

\* One more file in the list.
AddCsvFile ==
    /\ pc = "input"
    /\ Len(csv_file_paths) < MaxFiles
    /\ \E f \in CsvFileSamples : csv_file_paths' = Append(csv_file_paths, f)
    /\ UNCHANGED <<pc, error, tableVars, statsVars>>
    /\ UNCHANGED <<ref_found, force_regenerate, citywide_stats,
                   borough_stats, superintendent_stats, school_stats, calls,
                   superintendents, boroughs, disk, written, run>>

\* load_and_process_data(csv_file_paths)
load_and_process_data_from_files ==
    /\ pc = "input"
    /\ csv_file_paths # << >>
    /\ IF MainFileRaises(csv_file_paths)
       THEN /\ pc' = "raised"
            /\ error' = "FileNotFoundError"
            /\ UNCHANGED <<csv_rows, srepp_df, srepp_cols, main_df, main_cols>>
       ELSE LET rows == MainDataframes(csv_file_paths)
                pay  == SreppDataframes(csv_file_paths)
                err  == LoadError(rows, csv_cols)
            IN  /\ csv_rows' = rows
                /\ srepp_df' = pay
                /\ srepp_cols' = IF pay = << >> THEN {}
                                 ELSE PayrollRequired \cup {"Source_File"}
                /\ IF err # "none"
                   THEN /\ pc' = "raised"
                        /\ error' = err
                        /\ UNCHANGED <<main_df, main_cols>>
                   ELSE /\ pc' = "loaded"
                        /\ main_df' = ProcessedRows(rows, csv_cols)
                        /\ main_cols' = IF rows = << >> THEN {}
                                        ELSE csv_cols \cup LoadAdded
                        /\ UNCHANGED error
    /\ UNCHANGED <<csv_cols, subcentral_jobs, subcentral_totals, srepp_jobs,
                   srepp_totals, location_mapping, matching_df>>
    /\ UNCHANGED statsVars
    /\ UNCHANGED <<ref_found, csv_file_paths, force_regenerate,
                   citywide_stats, borough_stats, superintendent_stats,
                   school_stats, calls, superintendents, boroughs, disk,
                   written, run>>

NextFiles ==
    \/ AddCsvFile
    \/ load_and_process_data_from_files

SpecFiles == Init /\ [][NextFiles]_vars

----------------------------------------------------------------------------
(* get_totals_from_data and calculate_fill_rates.                          *)

\* The keys of the totals dictionary, which are the columns summed.
TotalsColumns ==
    {"Total", "Total_Vacancy", "Total_Absence", "Vacancy_Filled",
     "Absence_Filled"}

RECURSIVE ColumnSum(_, _)
\* int(data[col].sum())
ColumnSum(data, col) ==
    IF data = << >> THEN 0
    ELSE Head(data)[col] + ColumnSum(Tail(data), col)

\* get_totals_from_data(data)
get_totals_from_data(data) ==
    [col \in TotalsColumns |-> ColumnSum(data, col)]

\* filled / total * 100 with no test of the denominator; den = 0 stands
\* for the ZeroDivisionError of the division.
RateUnguarded(filled, total) == [num |-> filled * 100, den |-> total]

\* (filled / total * 100) if total > 0 else 0, as the fraction num / den
Rate(filled, total) ==
    IF total > 0 THEN [num |-> filled * 100, den |-> total]
    ELSE [num |-> 0, den |-> 1]

\* calculate_fill_rates(totals)
calculate_fill_rates(totals) ==
    [overall |-> Rate(totals.Vacancy_Filled + totals.Absence_Filled,
                      totals.Total),
     vacancy |-> Rate(totals.Vacancy_Filled, totals.Total_Vacancy),
     absence |-> Rate(totals.Absence_Filled, totals.Total_Absence)]

\* Totals dictionaries with counts up to MaxCount, consistent or not.
TotalsSamples == [TotalsColumns -> 0..MaxCount]

\* calculate_fill_rates(totals) on a dictionary of any counts
call_calculate_fill_rates ==
    /\ pc = "input"
    /\ csv_rows = << >>
    /\ fn_name = "none"
    /\ \E totals \in TotalsSamples :
          /\ fn_arg' = totals
          /\ fn_out' = << calculate_fill_rates(totals) >>
    /\ fn_name' = "calculate_fill_rates"
    /\ pc' = "returned"
    /\ UNCHANGED <<error, tableVars, group_cols, summary_stats,
                   ref_df, mapping_df>>
    /\ UNCHANGED runVars

\* get_totals_from_data(data) on a summary create_summary_stats returned
call_get_totals_from_data ==
    /\ pc = "summarised"
    /\ fn_name = "none"
    /\ fn_name' = "get_totals_from_data"
    /\ fn_arg' = summary_stats
    /\ fn_out' = << get_totals_from_data(summary_stats) >>
    /\ UNCHANGED <<pc, error, tableVars, group_cols, summary_stats,
                   ref_df, mapping_df>>
    /\ UNCHANGED runVars

\* calculate_fill_rates(get_totals_from_data(data))
call_calculate_fill_rates_of_totals ==
    /\ pc = "summarised"
    /\ fn_name = "get_totals_from_data"
    /\ Len(fn_out) = 1
    /\ fn_out' = Append(fn_out, calculate_fill_rates(fn_out[1]))
    /\ UNCHANGED <<pc, error, tableVars, group_cols, summary_stats,
                   ref_df, mapping_df, fn_name, fn_arg>>
    /\ UNCHANGED runVars

NextRates ==
    \/ AddStatsRow
    \/ load_and_process_data
    \/ create_summary_stats
    \/ call_calculate_fill_rates
    \/ call_get_totals_from_data
    \/ call_calculate_fill_rates_of_totals

SpecRates == Init /\ [][NextRates]_vars

----------------------------------------------------------------------------
(* main: the run from the input files to the reports, and the run after    *)
(* it on the same inputs and output directory.                             *)

RECURSIVE Replace(_, _, _)
\* s.replace(old, new) for a one-character old
Replace(s, old, new) ==
    IF s = << >> THEN << >>
    ELSE (IF Head(s) = old THEN new ELSE << Head(s) >>)
         \o Replace(Tail(s), old, new)

\* main: superintendent.replace(" ", "_").replace(",", "").replace(".", "")
ExpectedSafeName(superintendent) ==
    Replace(Replace(Replace(superintendent, " ", << "_" >>), ",", << >>),
            ".", << >>)

\* create_superintendent_report: superintendent.replace(',', '')
\* .replace(' ', '_').replace('.', '').replace("'", "")
safe_superintendent_name(superintendent) ==
    Replace(Replace(Replace(Replace(superintendent, ",", << >>),
                            " ", << "_" >>), ".", << >>), "'", << >>)

\* main: borough.replace(" ", "_").replace("/", "_")
borough_name_clean(borough) ==
    Replace(Replace(BoroughText(borough), " ", << "_" >>), "/", << "_" >>)

\* create_borough_report: borough.replace(' ', '_').replace('/', '_')
borough_clean(borough) ==
    Replace(Replace(BoroughText(borough), " ", << "_" >>), "/", << "_" >>)

RECURSIVE CollapseUnderscores(_)
\* re.sub(r'_+', '_', s)
CollapseUnderscores(s) ==
    IF Len(s) < 2 THEN s
    ELSE IF s[1] = "_" /\ s[2] = "_" THEN CollapseUnderscores(Tail(s))
    ELSE << Head(s) >> \o CollapseUnderscores(Tail(s))

RECURSIVE StripUnderscores(_)
\* s.strip('_')
StripUnderscores(s) ==
    IF s = << >> THEN s
    ELSE IF Head(s) = "_" THEN StripUnderscores(Tail(s))
    ELSE IF s[Len(s)] = "_" THEN StripUnderscores(SubSeq(s, 1, Len(s) - 1))
    ELSE s

\* location_clean of a school: the characters Windows forbids and white
\* space become "_", runs of "_" collapse, "_" is stripped from the ends,
\* "." becomes "_".  No location of the model is longer than 200.
location_clean(location) ==
    LET replaced == [i \in 1..Len(location) |->
                        IF location[i] \in {"<", ">", ":", "\"", "/", "\\",
                                            "|", "?", "*", " "}
                        THEN "_" ELSE location[i]]
    IN  Replace(StripUnderscores(CollapseUnderscores(replaced)),
                ".", << "_" >>)

\* A report file: what it reports on, the folder and the file name, both
\* made from a cleaned name.
ReportFile(kind, folder, name) ==
    [kind |-> kind, folder |-> folder, name |-> name]

\* os.path.join(output_directory, 'index.html')
IndexFile == ReportFile("index", << >>, << >>)

\* df['Superintendent_Name'].unique() without 'Unknown', sorted
Superintendents(df) ==
    LET names == {df[i].Superintendent_Name : i \in 1..Len(df)} \ {Unknown}
        index == SortKeys({<< n >> : n \in names})
    IN  [i \in 1..Len(index) |-> index[i][1]]

\* The borough names in ascending order.
BoroughOrder ==
    << "Bronx", "Brooklyn", "Manhattan", "Queens", "Staten Island",
       "Unknown" >>

\* sorted(df['Borough'].unique())
Boroughs(df) ==
    SelectSeq(BoroughOrder,
              LAMBDA b : \E i \in 1..Len(df) : df[i].Borough = b)

\* unique_schools of a superintendent: the locations school_stats has
\* under the name.
UniqueSchools(superintendent) ==
    {school_stats[i].Group[2] :
        i \in {j \in 1..Len(school_stats) :
                  school_stats[j].Group[1] = superintendent}}

\* The files create_superintendent_report writes: the report and one
\* report per school.
SuperintendentFiles(superintendent) ==
    LET safe == safe_superintendent_name(superintendent)
    IN  {ReportFile("superintendent", safe, safe)}
        \cup {ReportFile("school", safe, location_clean(l)) :
                 l \in UniqueSchools(superintendent)}

RECURSIVE SchoolReportCalls(_)
\* create_superintendent_school_report, once per school: the summary of
\* the school's borough and of its superintendent
SchoolReportCalls(n) ==
    IF n = 0 THEN << >>
    ELSE << << "Borough" >>, << "Superintendent_Name" >> >>
         \o SchoolReportCalls(n - 1)

\* The create_summary_stats calls of create_superintendent_report: the
\* summary of the superintendent's borough, then those of the schools.
SuperintendentReportCalls(superintendent) ==
    << << "Borough" >> >>
    \o SchoolReportCalls(Cardinality(UniqueSchools(superintendent)))

\* Superintendent names with the punctuation the safe names remove.
LeeA == << "L", "e", "e", ",", " ", "A", "." >>
ONeil == << "O", "'", "N", "e", "i", "l" >>

\* Records in two boroughs, at a location the reference file lacks, and
\* without a classification.
RunRowSamples ==
    { StatsRow(K100, PARA, Vacancy, AdminAssigned),
      StatsRow(M015, PARA, Absence, NoFill),
      StatsRow(K100sp, PARA, Vacancy, NoFill),
      StatsRow(M015, NA, Vacancy, AdminAssigned) }

\* Reference rows for K100 and M015.
RunRefRowSamples ==
    { RefRow(<< "1", "7", "K", "1", "0", "0" >>, << "1", "7" >>, ONeil),
      RefRow(<< "0", "2", "M", "0", "1", "5" >>, << "2" >>, LeeA),
      RefRow(<< "1", "7", "K", "1", "0", "0" >>, << "1", "7" >>, LeeA) }

AddRunRow ==
    /\ run = 1
    /\ Len(csv_rows) < MaxRunRows
    /\ \E r \in RunRowSamples : AppendCsvRow(r)

\* One more row in the reference file.
AddRunRefRow ==
    /\ pc = "input"
    /\ run = 1
    /\ ref_found
    /\ Len(ref_df) < MaxRunRefRows
    /\ \E r \in RunRefRowSamples : ref_df' = Append(ref_df, r)
    /\ UNCHANGED <<pc, error, tableVars, group_cols, summary_stats,
                   mapping_df, fn_name, fn_arg, fn_out>>
    /\ UNCHANGED runVars

\* The working directory has no file with the reference prefix.
NoReferenceFile ==
    /\ pc = "input"
    /\ run = 1
    /\ ref_found
    /\ ref_df = << >>
    /\ ref_found' = FALSE
    /\ UNCHANGED <<pc, error, tableVars, statsVars>>
    /\ UNCHANGED <<csv_file_paths, force_regenerate, citywide_stats,
                   borough_stats, superintendent_stats, school_stats, calls,
                   superintendents, boroughs, disk, written, run>>

\* main, "if df.empty: return"
main_no_data ==
    /\ pc = "matched"
    /\ main_df = << >>
    /\ pc' = "done"
    /\ UNCHANGED <<error, tableVars, statsVars, runVars>>

\* main, the try around load_superintendent_mapping and
\* add_superintendent_info: an exception of either is printed and the run
\* goes on with the table as it was.
main_add_superintendent_info ==
    /\ pc = "matched"
    /\ main_df # << >>
    /\ pc' = "statistics"
    /\ IF RaisesFileNotFound(ref_found)
       THEN /\ error' = "FileNotFoundError"
            /\ UNCHANGED <<mapping_df, main_df, main_cols>>
       ELSE IF MappingError(ref_df) # "none"
       THEN /\ error' = MappingError(ref_df)
            /\ UNCHANGED <<mapping_df, main_df, main_cols>>
       ELSE LET mapping     == SuperintendentMapping(ref_df)
                school_info == create_school_mapping_dict(mapping)
            IN  /\ mapping_df' = mapping
                /\ main_df' = [i \in 1..Len(main_df) |->
                                  EnrichRow(main_df[i], school_info)]
                /\ main_cols' = main_cols \cup EnrichAdded
                /\ UNCHANGED error
    /\ UNCHANGED <<csv_cols, csv_rows, srepp_df, srepp_cols,
                   subcentral_jobs, subcentral_totals, srepp_jobs,
                   srepp_totals, location_mapping, matching_df>>
    /\ UNCHANGED <<group_cols, summary_stats, ref_df, fn_name, fn_arg, fn_out>>
    /\ UNCHANGED runVars

\* main, the four create_summary_stats calls and the lists the report
\* loops go through.  A KeyError of the third call leaves main through its
\* outer except.
main_statistics ==
    /\ pc = "statistics"
    /\ IF "Superintendent_Name" \notin main_cols
       THEN /\ pc' = "failed"
            /\ error' = "KeyError"
            /\ calls' = calls \o << << >>, << "Borough" >>,
                                    << "Superintendent_Name" >> >>
            /\ UNCHANGED <<citywide_stats, borough_stats,
                           superintendent_stats, school_stats,
                           superintendents, boroughs>>
       ELSE /\ pc' = "reports"
            /\ citywide_stats' = SummaryStats(main_df, << >>)
            /\ borough_stats' = SummaryStats(main_df, << "Borough" >>)
            /\ superintendent_stats' =
                  SummaryStats(main_df, << "Superintendent_Name" >>)
            /\ school_stats' =
                  SummaryStats(main_df, << "Superintendent_Name", "Location" >>)
            /\ calls' = calls \o << << >>, << "Borough" >>,
                                    << "Superintendent_Name" >>,
                                    << "Superintendent_Name", "Location" >> >>
            /\ superintendents' = Superintendents(main_df)
            /\ boroughs' = Boroughs(main_df)
            /\ UNCHANGED error
    /\ UNCHANGED <<tableVars, statsVars>>
    /\ UNCHANGED <<ref_found, csv_file_paths, force_regenerate, disk,
                   written, run>>

\* main, one turn of "for superintendent in superintendents"
superintendent_report ==
    /\ pc = "reports"
    /\ superintendents # << >>
    /\ LET superintendent == Head(superintendents)
           superintendent_data ==
               SelectSeq(superintendent_stats,
                         LAMBDA row : row.Group[1] = superintendent)
           safe == ExpectedSafeName(superintendent)
           expected_report_file == ReportFile("superintendent", safe, safe)
       IN  IF \/ Len(superintendent_data) = 0
              \/ ~force_regenerate /\ expected_report_file \in disk
           THEN UNCHANGED <<disk, written, calls>>
           ELSE /\ disk' = disk \cup SuperintendentFiles(superintendent)
                /\ written' = written \cup SuperintendentFiles(superintendent)
                /\ calls' = calls \o SuperintendentReportCalls(superintendent)
    /\ superintendents' = Tail(superintendents)
    /\ UNCHANGED <<pc, error, tableVars, statsVars>>
    /\ UNCHANGED <<ref_found, csv_file_paths, force_regenerate,
                   citywide_stats, borough_stats, superintendent_stats,
                   school_stats, boroughs, run>>

\* main, one turn of "for borough in boroughs"
borough_report ==
    /\ pc = "reports"
    /\ superintendents = << >>
    /\ boroughs # << >>
    /\ LET borough == Head(boroughs)
           borough_data ==
               SelectSeq(borough_stats,
                         LAMBDA row : row.Group[1] = BoroughText(borough))
           expected_report_file ==
               ReportFile("borough", borough_name_clean(borough),
                          borough_name_clean(borough))
           report_file ==
               ReportFile("borough", borough_clean(borough),
                          borough_clean(borough))
       IN  IF \/ borough = "Unknown"
              \/ Len(borough_data) = 0
              \/ ~force_regenerate /\ expected_report_file \in disk
           THEN UNCHANGED <<disk, written, calls>>
           ELSE /\ disk' = disk \cup {report_file}
                /\ written' = written \cup {report_file}
                /\ calls' = Append(calls, << "District" >>)
    /\ boroughs' = Tail(boroughs)
    /\ UNCHANGED <<pc, error, tableVars, statsVars>>
    /\ UNCHANGED <<ref_found, csv_file_paths, force_regenerate,
                   citywide_stats, borough_stats, superintendent_stats,
                   school_stats, superintendents, run>>

\* main, "Create overall summary"
overall_summary ==
    /\ pc = "reports"
    /\ superintendents = << >>
    /\ boroughs = << >>
    /\ pc' = "done"
    /\ IF ~force_regenerate /\ IndexFile \in disk
       THEN UNCHANGED <<disk, written>>
       ELSE /\ disk' = disk \cup {IndexFile}
            /\ written' = written \cup {IndexFile}
    /\ UNCHANGED <<error, tableVars, statsVars>>
    /\ UNCHANGED <<ref_found, csv_file_paths, force_regenerate,
                   citywide_stats, borough_stats, superintendent_stats,
                   school_stats, calls, superintendents, boroughs, run>>

\* The program is started again, with or without --force, on the same
\* input files, reference file and output directory.
run_again ==
    /\ run = 1
    /\ pc \in {"done", "failed", "raised"}
    /\ run' = 2
    /\ pc' = "input"
    /\ \E force \in BOOLEAN : force_regenerate' = force
    /\ main_df' = << >>
    /\ main_cols' = {}
    /\ subcentral_jobs' = EmptyDict
    /\ subcentral_totals' = EmptyDict
    /\ srepp_jobs' = EmptyDict
    /\ srepp_totals' = EmptyDict
    /\ location_mapping' = EmptyDict
    /\ matching_df' = << >>
    /\ error' = "none"
    /\ mapping_df' = << >>
    /\ citywide_stats' = << >>
    /\ borough_stats' = << >>
    /\ superintendent_stats' = << >>
    /\ school_stats' = << >>
    /\ calls' = << >>
    /\ superintendents' = << >>
    /\ boroughs' = << >>
    /\ written' = {}
    /\ UNCHANGED <<csv_cols, csv_rows, srepp_df, srepp_cols, ref_df,
                   ref_found, csv_file_paths, disk, group_cols,
                   summary_stats, fn_name, fn_arg, fn_out>>

NextMain ==
    \/ AddRunRow
    \/ AddRunRefRow
    \/ NoReferenceFile
    \/ load_and_process_data
    \/ create_matching_analysis
    \/ main_no_data
    \/ main_add_superintendent_info
    \/ main_statistics
    \/ superintendent_report
    \/ borough_report
    \/ overall_summary
    \/ run_again

SpecMain == Init /\ [][NextMain]_vars

----------------------------------------------------------------------------
(* Properties of the matcher.                                              *)

Rows == {matching_df[i] : i \in 1..Len(matching_df)}

\* A primary row that gets a job id: Filled, with a date and a numeric
\* person identifier.
PrimaryKeyable(p) ==
    /\ p.Fill_Status = Filled
    /\ p.Job_Start # NaT
    /\ IsNumeric(p.Specified_Sub)

\* A payroll row that gets a job id.
PayrollKeyable(q) == IsNumeric(q.EISID) /\ ToDatetime(q.DATE) # NaT

\* The primary location as the matcher names it.
LocationOf(p) == Strip(Str(p.Location))

RemoveAt(seq, i) == SubSeq(seq, 1, i - 1) \o SubSeq(seq, i + 1, Len(seq))

\* C1: in every row of the matching result the matched count exceeds
\* neither the primary job-day count nor the payroll job-day count of that
\* location.
C1_MatchedAtMostEitherCount ==
    pc = "matched" =>
        \A r \in Rows :
            /\ r.Matched_Jobs <= r.SubCentral_Job_Days
            /\ r.Matched_Jobs <= r.Payroll_Job_Days

\* A location with a match, whose two primary job days carry the same id.
C1_Witness ==
    /\ pc = "matched"
    /\ \E r \in Rows :
          /\ r.Matched_Jobs = 1
          /\ r.SubCentral_Job_Days = 2
          /\ r.Payroll_Job_Days = 1

\* C2: a Filled primary record and a payroll record that agree on the
\* translated location, the person identifier and the date have equal
\* composite keys, so the key is in both key sets of that location and the
\* pair is counted as a match.
C2_AgreeingRecordsShareKey ==
    pc = "matched" =>
        \A i \in 1..Len(main_df), j \in 1..Len(srepp_df) :
            LET p == main_df[i]
                q == srepp_df[j]
            IN  ( /\ PrimaryKeyable(p)
                  /\ PayrollKeyable(q)
                  /\ SchoolClean(q.SCHOOL) \in DOMAIN location_mapping
                  /\ location_mapping[SchoolClean(q.SCHOOL)] = LocationOf(p)
                  /\ ToInt(p.Specified_Sub) = ToInt(q.EISID)
                  /\ p.Job_Start = ToDatetime(q.DATE) )
                =>
                ( /\ \E k \in Get(subcentral_jobs, LocationOf(p), {}) :
                        k \in Get(srepp_jobs, LocationOf(p), {})
                  /\ \E r \in Rows :
                        r.Location = LocationOf(p) /\ r.Matched_Jobs >= 1 )

\* C3: in every row of the result matched_jobs is the number of keys in
\* both the primary key set and the payroll key set of the location.
C3_MatchedIsIntersectionSize ==
    pc = "matched" =>
        \A r \in Rows :
            r.Matched_Jobs =
                Cardinality(Get(subcentral_jobs, r.Location, {})
                                \cap Get(srepp_jobs, r.Location, {}))

\* Scenario 3: one primary key, two payroll keys, one of them shared.
C3_Witness ==
    /\ pc = "matched"
    /\ \E r \in Rows :
          /\ r.Matched_Jobs = 1
          /\ r.Payroll_Job_Days = 2
          /\ Cardinality(srepp_jobs[r.Location]) = 2
          /\ Cardinality(subcentral_jobs[r.Location]) = 1

\* C4: match_percentage is matched_jobs / payroll_job_days * 100 when
\* payroll_job_days is positive and 0 when it is 0, and the computation
\* never divides by zero.
C4_MatchPercentage ==
    /\ error # "ZeroDivisionError"
    /\ pc = "matched" =>
          \A r \in Rows :
              /\ r.Match_Percentage.den # 0
              /\ r.Payroll_Job_Days > 0 =>
                    r.Match_Percentage.num * r.Payroll_Job_Days
                        = r.Matched_Jobs * 100 * r.Match_Percentage.den
              /\ r.Payroll_Job_Days = 0 => r.Match_Percentage.num = 0

\* A result with a location payroll does not know and a location where
\* half of the payroll job days are matched.
C4_Witness ==
    /\ pc = "matched"
    /\ \E r \in Rows : r.Payroll_Job_Days = 0
    /\ \E r \in Rows :
          /\ r.Payroll_Job_Days > 0
          /\ r.Match_Percentage.num = 100 * r.Match_Percentage.den

\* C5: create_matching_analysis does not raise when a required column is
\* missing on either side.
C5_MissingColumnNeverRaises ==
    (PrimaryRequired \ main_cols # {} \/ PayrollRequired \ srepp_cols # {})
        => pc # "raised"

\* The last-4 codes of the primary locations.
PrimaryCodes ==
    {TakeLast(LocationOf(main_df[i]), LocationCodeLen) : i \in 1..Len(main_df)}

\* C6: a payroll row whose school_clean is the last-4 code of no primary
\* location adds nothing: the payroll totals and key sets are those of the
\* payroll table without that row, and every location with payroll job
\* days is a primary location.
C6_UnmatchableRowDropped ==
    pc = "matched" =>
        /\ \A j \in 1..Len(srepp_df) :
              SchoolClean(srepp_df[j].SCHOOL) \notin PrimaryCodes =>
                  LET rest == RemoveAt(srepp_df, j)
                  IN  /\ srepp_totals = SreppTotals(main_df, rest, srepp_cols)
                      /\ srepp_jobs = SreppJobs(main_df, rest, srepp_cols)
        /\ \A l \in DOMAIN srepp_totals :
              \E i \in 1..Len(main_df) : LocationOf(main_df[i]) = l

\* A payroll row with an id and a date whose school no primary location
\* ends with, beside a payroll row that is attributed.
C6_Witness ==
    /\ pc = "matched"
    /\ main_df # << >>
    /\ srepp_totals # EmptyDict
    /\ \E j \in 1..Len(srepp_df) :
          /\ PayrollKeyable(srepp_df[j])
          /\ SchoolClean(srepp_df[j].SCHOOL) \notin PrimaryCodes

\* C7: the result has exactly one row for every location of either side's
\* totals; a location only one system knows has matched_jobs 0 and the
\* other system's count 0.
C7_OneRowPerLocation ==
    pc = "matched" =>
        LET locs == (DOMAIN subcentral_totals) \cup (DOMAIN srepp_totals)
        IN  /\ \A l \in locs :
                  Cardinality({i \in 1..Len(matching_df) :
                                  matching_df[i].Location = l}) = 1
            /\ \A r \in Rows : r.Location \in locs
            /\ \A r \in Rows :
                  /\ r.Location \notin DOMAIN srepp_totals =>
                        /\ r.Matched_Jobs = 0
                        /\ r.Payroll_Job_Days = 0
                        /\ r.SubCentral_Job_Days = subcentral_totals[r.Location]
                  /\ r.Location \notin DOMAIN subcentral_totals =>
                        /\ r.Matched_Jobs = 0
                        /\ r.SubCentral_Job_Days = 0
                        /\ r.Payroll_Job_Days = srepp_totals[r.Location]

\* A location with primary job days only and one with payroll job days
\* only.
C7_Witness ==
    /\ pc = "matched"
    /\ \E r \in Rows : r.SubCentral_Job_Days > 0 /\ r.Payroll_Job_Days = 0
    /\ \E r \in Rows : r.SubCentral_Job_Days = 0 /\ r.Payroll_Job_Days > 0

\* C8: the rows of the result are in strictly ascending order of location.
C8_SortedByLocation ==
    pc = "matched" =>
        \A i, j \in 1..Len(matching_df) :
            i < j => StrLess(matching_df[i].Location, matching_df[j].Location)

\* A result of three locations.
C8_Witness == pc = "matched" /\ Len(matching_df) = 3

\* The Filled primary records at a location.
FilledAt(l) ==
    {i \in 1..Len(main_df) :
        LocationOf(main_df[i]) = l /\ main_df[i].Fill_Status = Filled}

\* C9 as stated: subcentral_job_days is the number of Filled primary records
\* at the location.
C9_CountsEveryFilledRecord ==
    pc = "matched" =>
        \A r \in Rows : r.SubCentral_Job_Days = Cardinality(FilledAt(r.Location))

\* C9, amended: subcentral_job_days is the number of Filled primary records
\* at the location that have a valid Job Start and a numeric Specified Sub.
C9_CountsKeyableFilledRecords ==
    pc = "matched" =>
        \A r \in Rows :
            r.SubCentral_Job_Days =
                Cardinality({i \in FilledAt(r.Location) :
                                PrimaryKeyable(main_df[i])})

\* A location with two job days and a third Filled record that has no
\* person identifier or no date.
C9_Witness ==
    /\ pc = "matched"
    /\ \E r \in Rows :
          /\ r.SubCentral_Job_Days = 2
          /\ Cardinality(FilledAt(r.Location)) = 3

----------------------------------------------------------------------------
(* Properties of the normaliser.                                           *)

CanonicalBuckets ==
    { Vacancy \o << "_" >> \o Filled, Vacancy \o << "_" >> \o Unfilled,
      Absence \o << "_" >> \o Filled, Absence \o << "_" >> \o Unfilled }

\* The rows of the primary extracts that the normaliser keeps, in order:
\* main_df[i] is the normalised RawKept[i].
RawKept == SelectSeq(csv_rows, LAMBDA r : ~IsNA(r.District))

\* C10 as stated: every record with a Type and a Status has one of the four
\* canonical Type_Fill_Status values, whatever the raw strings were.
C10_AnyTypeIsCanonical ==
    pc = "loaded" =>
        \A i \in 1..Len(main_df) :
            (~IsNA(RawKept[i].Type) /\ ~IsNA(RawKept[i].Status))
                => main_df[i].Type_Fill_Status \in CanonicalBuckets

\* C10, amended: every record whose raw Type is Vacancy or Absence up to
\* letter case and surrounding blanks has one of the four canonical
\* Type_Fill_Status values, whatever its Status (a missing Status counts as
\* Unfilled).
C10_VacancyOrAbsenceIsCanonical ==
    pc = "loaded" =>
        \A i \in 1..Len(main_df) :
            (~IsNA(RawKept[i].Type)
                /\ Upper(Strip(RawKept[i].Type)) \in {VACANCY, ABSENCE})
                => main_df[i].Type_Fill_Status \in CanonicalBuckets

\* A record typed " absence " with no Status, normalised to
\* Absence_Unfilled, beside one typed "VACANCY" that is filled.
C10_Witness ==
    /\ pc = "loaded"
    /\ \E i \in 1..Len(main_df) :
          /\ RawKept[i].Type = absence
          /\ IsNA(RawKept[i].Status)
          /\ main_df[i].Type_Fill_Status = Absence \o << "_" >> \o Unfilled
    /\ \E i \in 1..Len(main_df) :
          /\ RawKept[i].Type = VACANCY
          /\ main_df[i].Type_Fill_Status = Vacancy \o << "_" >> \o Filled

----------------------------------------------------------------------------
(* Properties of the summary statistics.                                   *)

StatRows == {summary_stats[i] : i \in 1..Len(summary_stats)}

\* The records of main_df in the group of a summary row.
InGroup(row) ==
    {i \in 1..Len(main_df) :
        GroupKey(main_df[i], GroupColsForProcessing(group_cols))
            = row.Group \o << row.Classification >>}

BucketSum(row) ==
    row.Vacancy_Filled + row.Vacancy_Unfilled
        + row.Absence_Filled + row.Absence_Unfilled

\* C11 as stated: in every summary row the four bucket counts add up to the
\* number of records of the row's group that have a Type and a Status.
C11_BucketsCountTypedRecords ==
    pc = "summarised" =>
        \A row \in StatRows :
            BucketSum(row) =
                Cardinality({i \in InGroup(row) :
                                /\ ~IsNA(main_df[i].Type)
                                /\ ~IsNA(main_df[i].Status)})

\* C11, amended: in every summary row the four bucket counts add up to the
\* number of records of the row's group whose normalised Type is Vacancy or
\* Absence, whatever their Status (a missing Status counts as Unfilled).
C11_BucketsCountVacanciesAndAbsences ==
    pc = "summarised" =>
        \A row \in StatRows :
            BucketSum(row) =
                Cardinality({i \in InGroup(row) :
                                main_df[i].Type \in {Vacancy, Absence}})

\* A group of three records, one an absence with no Status and one of
\* another Type: its buckets hold two.
C11_Witness ==
    /\ pc = "summarised"
    /\ \E row \in StatRows :
          /\ BucketSum(row) = 2
          /\ Cardinality(InGroup(row)) = 3
          /\ row.Absence_Unfilled = 1
          /\ \E i \in InGroup(row) :
                main_df[i].Type = Absence /\ IsNA(main_df[i].Status)
          /\ \E i \in InGroup(row) : main_df[i].Type = Leave

ZeroPct == [nan |-> FALSE, tenths |-> 0]

\* C12: in every summary row a percentage whose denominator is 0 is
\* exactly 0, and no percentage is undefined.
C12_ZeroDenominatorGivesZero ==
    pc = "summarised" =>
        \A row \in StatRows :
            /\ row.Total_Vacancy = 0 => row.Vacancy_Fill_Pct = ZeroPct
            /\ row.Total_Absence = 0 => row.Absence_Fill_Pct = ZeroPct
            /\ row.Total = 0 => row.Overall_Fill_Pct = ZeroPct
            /\ ~row.Vacancy_Fill_Pct.nan
            /\ ~row.Absence_Fill_Pct.nan
            /\ ~row.Overall_Fill_Pct.nan

\* A row with vacancies and no absence beside a row with no job at all.
C12_Witness ==
    /\ pc = "summarised"
    /\ \E row \in StatRows : row.Total_Vacancy > 0 /\ row.Total_Absence = 0
    /\ \E row \in StatRows : row.Total = 0

\* C13: in every summary row the three percentages lie between 0 and 100
\* (0 and 1000 tenths).
C13_PercentagesBounded ==
    pc = "summarised" =>
        \A row \in StatRows :
            \A pct \in {row.Vacancy_Fill_Pct, row.Absence_Fill_Pct,
                        row.Overall_Fill_Pct} :
                ~pct.nan /\ pct.tenths >= 0 /\ pct.tenths <= 1000

\* Two of three jobs filled: 66.7 overall, 50.0 of the vacancies, 100.0 of
\* the absences.
C13_Witness ==
    /\ pc = "summarised"
    /\ \E row \in StatRows :
          /\ row.Overall_Fill_Pct.tenths = 667
          /\ row.Vacancy_Fill_Pct.tenths = 500
          /\ row.Absence_Fill_Pct.tenths = 1000

\* C14: in every summary row the four bucket counts are non-negative
\* integers and the derived counts are the stated sums.
C14_DerivedColumns ==
    pc = "summarised" =>
        \A row \in StatRows :
            /\ \A n \in {row.Vacancy_Filled, row.Vacancy_Unfilled,
                         row.Absence_Filled, row.Absence_Unfilled} : n \in Nat
            /\ row.Total_Vacancy = row.Vacancy_Filled + row.Vacancy_Unfilled
            /\ row.Total_Absence = row.Absence_Filled + row.Absence_Unfilled
            /\ row.Total = row.Total_Vacancy + row.Total_Absence
            /\ row.Total_Filled = row.Vacancy_Filled + row.Absence_Filled
            /\ row.Total_Unfilled = row.Vacancy_Unfilled + row.Absence_Unfilled

\* A row with three of the buckets filled and an explicit 0 in the fourth.
C14_Witness ==
    /\ pc = "summarised"
    /\ \E row \in StatRows :
          /\ row.Vacancy_Filled = 1
          /\ row.Vacancy_Unfilled = 1
          /\ row.Absence_Filled = 1
          /\ row.Absence_Unfilled = 0
          /\ row.Total = 3

----------------------------------------------------------------------------
(* Properties of the helper functions.                                     *)

\* C15: cleaning a cleaned classification changes nothing.
C15_CleanupIdempotent ==
    (fn_name = "clean_classification_gender" /\ Len(fn_out) = 2)
        => fn_out[2] = fn_out[1]

StartsWith(s, prefix) ==
    Len(s) >= Len(prefix) /\ Upper(SubSeq(s, 1, Len(prefix))) = prefix

\* What C16 states of a classification without stray blanks: the two
\* gendered PARA names become PARAPROFESSIONAL, a leading "FEMALE " or
\* "MALE " is removed, everything else stays.
PrefixStripped(c) ==
    IF Upper(c) \in {FEMALE \o Space \o PARA, MALE \o Space \o PARA}
    THEN PARAPROFESSIONAL
    ELSE IF StartsWith(c, FEMALE \o Space) THEN DropFirst(c, Len(FEMALE) + 1)
    ELSE IF StartsWith(c, MALE \o Space) THEN DropFirst(c, Len(MALE) + 1)
    ELSE c

\* C16: clean_classification_gender maps FEMALE PARA and MALE PARA to
\* PARAPROFESSIONAL and otherwise removes only a leading gender prefix,
\* leaving the rest of the text unchanged (stated for classifications with
\* no leading, trailing or repeated blanks).
C16_OnlyLeadingPrefixRemoved ==
    ( /\ fn_name = "clean_classification_gender"
      /\ ~IsNA(fn_arg)
      /\ fn_arg = Strip(CollapseSpaces(fn_arg))
      /\ Strip(PrefixStripped(fn_arg)) = PrefixStripped(fn_arg) )
        => fn_out[1] = PrefixStripped(fn_arg)

\* C19: get_borough_from_location never raises and returns one of the five
\* boroughs or Unknown.
C19_BoroughNeverRaises ==
    fn_name = "get_borough_from_location" =>
        /\ pc # "raised"
        /\ fn_out[1] \in {"Manhattan", "Brooklyn", "Queens", "Bronx",
                          "Staten Island", "Unknown"}

----------------------------------------------------------------------------
(* Further properties of the normaliser.                                   *)

\* C17: a record is Filled exactly when its raw Status is one of the five
\* whitelisted strings, and Unfilled otherwise, a missing Status included.
C17_FilledIffWhitelisted ==
    pc = "loaded" =>
        \A i \in 1..Len(main_df) :
            main_df[i].Fill_Status =
                IF RawKept[i].Status \in
                      { << "Finished/Admin Assigned" >>,
                        << "Finished/IVR Assigned" >>,
                        << "Finished/IVR Sub Search" >>,
                        << "Finished/Pre Arranged" >>,
                        << "Finished/Web Sub Search" >> }
                THEN << "F", "i", "l", "l", "e", "d" >>
                ELSE << "U", "n", "f", "i", "l", "l", "e", "d" >>

\* A whitelisted status beside one that differs from it by letter case.
C17_Witness ==
    /\ pc = "loaded"
    /\ \E i \in 1..Len(main_df) :
          /\ RawKept[i].Status = Whole("Finished/Web Sub Search")
          /\ main_df[i].Fill_Status = Filled
    /\ \E i \in 1..Len(main_df) :
          /\ RawKept[i].Status = Whole("finished/admin assigned")
          /\ main_df[i].Fill_Status = Unfilled

\* C18: a numeric Job Start n is the day 1899-12-30 plus n days.
C18_SerialCountsFrom18991230 ==
    pc = "loaded" =>
        \A i \in 1..Len(main_df) :
            IsNumeric(RawKept[i].Job_Start) =>
                main_df[i].Job_Start =
                    CivilFromDays(DaysFromCivil(1899, 12, 30)
                                      + ToInt(RawKept[i].Job_Start))

----------------------------------------------------------------------------
(* Properties of the enrichment.                                           *)

\* The rows of the reference file for location l, by position.
RefAt(l) ==
    {i \in 1..Len(ref_df) :
        ~IsNA(ref_df[i].DBN) /\ DropFirst(ref_df[i].DBN, 2) = l}

\* Those that name a superintendent.
CompleteRefAt(l) == {i \in RefAt(l) : ~IsNA(ref_df[i].Superintendent)}

First(S) == CHOOSE i \in S : \A j \in S : i <= j

MappedLocations == {mapping_df[i].Location : i \in 1..Len(mapping_df)}

\* The mapping has one entry per location, the entry of location l comes
\* from reference row first[l], and every record at l carries that row's
\* unit and superintendent.
FirstWins(first) ==
    /\ \A i, j \in 1..Len(mapping_df) :
          mapping_df[i].Location = mapping_df[j].Location => i = j
    /\ \A i \in 1..Len(mapping_df) :
          LET row == ref_df[first[mapping_df[i].Location]]
          IN  /\ mapping_df[i].DBN = row.DBN
              /\ mapping_df[i].Superintendent = row.Superintendent
    /\ pc = "enriched" =>
          \A i \in 1..Len(main_df) :
              main_df[i].Location \in MappedLocations =>
                  LET row == ref_df[first[main_df[i].Location]]
                  IN  /\ main_df[i].Superintendent_Name = row.Superintendent
                      /\ main_df[i].District_From_Mapping
                            = MappingDistrict(row.Dist, DistIsFloat(ref_df))
                      /\ main_df[i].DBN = row.DBN

\* C20 as stated: each location occurs once in the mapping, the entry kept
\* for a location is the first row of the reference file for it, and
\* records at the location get that row's unit and superintendent.
C20_FirstRowOfFileWins ==
    pc \in {"mapped", "enriched"} =>
        FirstWins([l \in MappedLocations |-> First(RefAt(l))])

\* C20, amended: each location occurs once in the mapping, the entry kept
\* for a location is the first row of the reference file for it that has
\* a superintendent, and records at the location get that row's unit and
\* superintendent.
C20_FirstRowWithSuperintendentWins ==
    pc \in {"mapped", "enriched"} =>
        FirstWins([l \in MappedLocations |-> First(CompleteRefAt(l))])

\* Two reference rows give one location two units and a record at the
\* location carries the unit and superintendent of the earlier row.
C20_Witness ==
    /\ pc = "enriched"
    /\ \E l \in MappedLocations :
          /\ \E i, j \in CompleteRefAt(l) :
                /\ i < j
                /\ ref_df[i].Dist # ref_df[j].Dist
                /\ ref_df[i].Superintendent # ref_df[j].Superintendent
          /\ \E k \in 1..Len(main_df) :
                /\ main_df[k].Location = l
                /\ main_df[k].Superintendent_Name
                      = ref_df[First(CompleteRefAt(l))].Superintendent

\* The reference row an entry of the mapping comes from.
SourceRow(entry) == ref_df[First(CompleteRefAt(entry.Location))]

\* The number a unit code reads as: 75 for '75' and for '75.0'.
UnitCode(text) == IF IsNumeric(text) THEN ToInt(text) ELSE -1

\* C21: no entry of the mapping carries unit code 75; the entry of a
\* reference row with unit 75 carries 97, also when that row is the one
\* kept of several for its location; the entry of a row with any other
\* unit code carries that code.
C21_Unit75RecordedAs97 ==
    pc \in {"mapped", "enriched"} =>
        \A i \in 1..Len(mapping_df) :
            LET dist == SourceRow(mapping_df[i]).Dist
            IN  /\ UnitCode(mapping_df[i].District) # 75
                /\ UnitCode(dist) = 75 => UnitCode(mapping_df[i].District) = 97
                /\ (~IsNA(dist) /\ UnitCode(dist) # 75) =>
                       UnitCode(mapping_df[i].District) = UnitCode(dist)

\* The table add_superintendent_info was given.
BeforeEnrichment == ProcessedRows(csv_rows, csv_cols)

\* The entry of the mapping for location l.
EntryOf(l) ==
    mapping_df[CHOOSE i \in 1..Len(mapping_df) : mapping_df[i].Location = l]

\* C22: add_superintendent_info keeps every record with the cells it had;
\* a record whose location is not in the mapping gets "Unknown" in all
\* five added columns, a record whose location is in the mapping gets the
\* superintendent, unit, borough, identifier and school name of its entry.
C22_UnknownOrEntryValues ==
    pc = "enriched" =>
        /\ Len(main_df) = Len(BeforeEnrichment)
        /\ \A i \in 1..Len(main_df) :
              /\ \A c \in DOMAIN BeforeEnrichment[i] :
                    main_df[i][c] = BeforeEnrichment[i][c]
              /\ IF main_df[i].Location \in MappedLocations
                 THEN LET entry == EntryOf(main_df[i].Location)
                      IN  /\ main_df[i].Superintendent_Name = entry.Superintendent
                          /\ main_df[i].District_From_Mapping = entry.District
                          /\ main_df[i].Borough_From_Mapping = entry.Borough
                          /\ main_df[i].DBN = entry.DBN
                          /\ main_df[i].School_Name_Full = entry.School_Name
                 ELSE \A c \in EnrichAdded : main_df[i][c] = Unknown

\* A table with a record at a mapped location and a record at a location
\* the mapping lacks has been enriched.
C22_Witness ==
    /\ pc = "enriched"
    /\ \E i, j \in 1..Len(main_df) :
          /\ main_df[i].Location \in MappedLocations
          /\ main_df[i].Superintendent_Name # Unknown
          /\ main_df[j].Location \notin MappedLocations
          /\ main_df[j].School_Name_Full = Unknown

----------------------------------------------------------------------------
(* Properties of the file loop.                                            *)

\* The payroll files of the list that were read, by position.
LoadedPayroll ==
    {i \in 1..Len(csv_file_paths) :
        /\ csv_file_paths[i].filename \in PayrollNames
        /\ csv_file_paths[i].readable}

FailedPayroll ==
    {i \in 1..Len(csv_file_paths) :
        /\ csv_file_paths[i].filename \in PayrollNames
        /\ ~csv_file_paths[i].readable}

\* The number of rows file i contributes.
RowsRead(i) ==
    LET f == csv_file_paths[i]
    IN  IF f.wide /\ f.lines # << >> THEN Len(f.lines) - 1 ELSE Len(f.lines)

\* The list without the payroll files that failed.
WithoutFailedPayroll ==
    SelectSeq(csv_file_paths,
              LAMBDA f : f.filename \notin PayrollNames \/ f.readable)

\* C24: a payroll file that fails to load is skipped: the call raises only
\* when a primary file fails or the primary rows do, the payroll table is
\* the rows of the payroll files that loaded, file by file in the order of
\* the list, and the primary table is the one the call returns for the
\* list without the failed files.
C24_FailedPayrollFileSkipped ==
    (pc \in {"loaded", "raised"} /\ csv_file_paths # << >>) =>
        /\ pc = "raised" =>
              \/ MainFileRaises(csv_file_paths)
              \/ LoadError(MainDataframes(WithoutFailedPayroll), csv_cols)
                    # "none"
        /\ pc = "loaded" =>
              /\ LET total[i \in 0..Len(csv_file_paths)] ==
                         IF i = 0 THEN 0
                         ELSE total[i - 1]
                              + (IF i \in LoadedPayroll THEN RowsRead(i)
                                 ELSE 0)
                 IN  Len(srepp_df) = total[Len(csv_file_paths)]
              /\ \A i \in LoadedPayroll :
                    \A k \in 1..RowsRead(i) :
                        \E n \in 1..Len(srepp_df) :
                            /\ srepp_df[n].Source_File
                                  = csv_file_paths[i].filename
                            /\ srepp_df[n].SCHOOL
                                  = csv_file_paths[i].lines[
                                        Len(csv_file_paths[i].lines)
                                        - RowsRead(i) + k].SCHOOL
              /\ \A m, n \in 1..Len(srepp_df) :
                    m < n =>
                        \E i, j \in LoadedPayroll :
                            /\ i <= j
                            /\ srepp_df[m].Source_File
                                  = csv_file_paths[i].filename
                            /\ srepp_df[n].Source_File
                                  = csv_file_paths[j].filename
              /\ main_df = ProcessedRows(MainDataframes(WithoutFailedPayroll),
                                         csv_cols)

\* A payroll file failed before another was read, and the call returned
\* the rows of the latter next to the primary rows.
C24_Witness ==
    /\ pc = "loaded"
    /\ \E i \in FailedPayroll : \E j \in LoadedPayroll : i < j
    /\ srepp_df # << >>
    /\ main_df # << >>

----------------------------------------------------------------------------
(* Properties of the totals and the fill rates.                            *)

\* rate is the number filled / total * 100.
IsPercentOf(rate, filled, total) ==
    /\ rate.den > 0
    /\ rate.num * total = filled * 100 * rate.den

\* rate is 0.
IsZeroRate(rate) == rate.den > 0 /\ rate.num = 0

\* The rate of the claim for a numerator and a denominator.
RateAsClaimed(rate, filled, total) ==
    IF total > 0 THEN IsPercentOf(rate, filled, total) ELSE IsZeroRate(rate)

RatesAsClaimed(rates, totals) ==
    /\ RateAsClaimed(rates.overall,
                     totals.Vacancy_Filled + totals.Absence_Filled,
                     totals.Total)
    /\ RateAsClaimed(rates.vacancy, totals.Vacancy_Filled,
                     totals.Total_Vacancy)
    /\ RateAsClaimed(rates.absence, totals.Absence_Filled,
                     totals.Total_Absence)

\* The sum of a column over the rows of a summary, row by row.
SumOfColumn(rows, col) ==
    LET partial[i \in 0..Len(rows)] ==
            IF i = 0 THEN 0 ELSE partial[i - 1] + rows[i][col]
    IN  partial[Len(rows)]

\* C25: calculate_fill_rates returns filled / total * 100 for each rate
\* with a positive denominator and 0 for a zero denominator, for every
\* dictionary of non-negative counts; get_totals_from_data returns the
\* sums of the five columns over the summary rows; the two in sequence on
\* an empty or all-zero summary give (0, 0, 0); neither raises.
C25_RatesAndTotals ==
    /\ fn_name = "calculate_fill_rates" => RatesAsClaimed(fn_out[1], fn_arg)
    /\ fn_name = "get_totals_from_data" =>
          /\ fn_out[1].Total = SumOfColumn(fn_arg, "Total")
          /\ fn_out[1].Total_Vacancy = SumOfColumn(fn_arg, "Total_Vacancy")
          /\ fn_out[1].Total_Absence = SumOfColumn(fn_arg, "Total_Absence")
          /\ fn_out[1].Vacancy_Filled = SumOfColumn(fn_arg, "Vacancy_Filled")
          /\ fn_out[1].Absence_Filled = SumOfColumn(fn_arg, "Absence_Filled")
          /\ Len(fn_out) = 2 =>
                /\ RatesAsClaimed(fn_out[2], fn_out[1])
                /\ (\A i \in 1..Len(fn_arg) : fn_arg[i].Total = 0) =>
                      /\ IsZeroRate(fn_out[2].overall)
                      /\ IsZeroRate(fn_out[2].vacancy)
                      /\ IsZeroRate(fn_out[2].absence)

\* The rates of a summary with no row, of a summary whose rows are all
\* zero, and of a summary with filled and unfilled jobs have been computed.
C25_WitnessEmpty ==
    fn_name = "get_totals_from_data" /\ Len(fn_out) = 2 /\ fn_arg = << >>

C25_WitnessAllZero ==
    /\ fn_name = "get_totals_from_data" /\ Len(fn_out) = 2
    /\ fn_arg # << >>
    /\ \A i \in 1..Len(fn_arg) : fn_arg[i].Total = 0

C25_Witness ==
    /\ fn_name = "get_totals_from_data" /\ Len(fn_out) = 2
    /\ Len(fn_arg) > 1
    /\ fn_out[1].Total_Vacancy > fn_out[1].Vacancy_Filled
    /\ fn_out[1].Vacancy_Filled > 0
    /\ fn_out[1].Total_Absence > 0
    /\ fn_out[2].vacancy.num > 0

----------------------------------------------------------------------------
(* Further properties of the matcher.                                      *)

\* C27: a call of create_matching_analysis leaves the primary table and
\* the payroll table as they were: the same rows in the same order with
\* the same columns and cells.
C27_InputsUnchanged ==
    [][(pc \in {"loaded", "call"} /\ pc' \in {"matched", "raised"}) =>
          /\ main_df' = main_df
          /\ main_cols' = main_cols
          /\ srepp_df' = srepp_df
          /\ srepp_cols' = srepp_cols]_vars

\* The matcher has returned rows for tables from which it had to drop a
\* primary row and a payroll row before building the job ids.
C27_Witness ==
    /\ pc = "matched"
    /\ matching_df # << >>
    /\ main_df # << >>
    /\ Len(SubcentralFilledJobs(main_df, main_cols)) < Len(main_df)
    /\ srepp_df # << >>
    /\ Len(ValidSrepp(srepp_df)) < Len(srepp_df)

\* The last four characters of a primary location, as the matcher cuts
\* them.
CodeOf(p) == TakeLast(LocationOf(p), 4)

\* The primary rows whose Location value occurs there for the first time:
\* the distinct primary locations, in order.
Distinct == {i \in 1..Len(main_df) :
                \A j \in 1..(i - 1) : main_df[j].Location # main_df[i].Location}

\* The last of the distinct primary locations with code c.
LastWithCode(c) ==
    LocationOf(main_df[CHOOSE i \in Distinct :
                          /\ CodeOf(main_df[i]) = c
                          /\ \A j \in Distinct :
                                CodeOf(main_df[j]) = c => j <= i])

\* The payroll rows that get a job id and whose school code is c.
PayrollWithCode(c) ==
    {j \in 1..Len(srepp_df) :
        PayrollKeyable(srepp_df[j]) /\ SchoolClean(srepp_df[j].SCHOOL) = c}

\* C28: the translation map has one target per code, the last of the
\* distinct primary locations with that code; the payroll rows with the
\* code are all counted at that target, so the payroll counts over all
\* locations add up to the number of translated payroll rows; a primary
\* location that shares its code with the target has no payroll job days
\* and no matched jobs.
C28_LastLocationOfCodeTakesPayroll ==
    (pc = "matched" /\ main_df # << >> /\ ValidSrepp(srepp_df) # << >>) =>
        /\ DOMAIN location_mapping = {CodeOf(main_df[i]) : i \in 1..Len(main_df)}
        /\ \A c \in DOMAIN location_mapping :
              /\ location_mapping[c] = LastWithCode(c)
              /\ Get(srepp_totals, LastWithCode(c), 0)
                    = Cardinality(PayrollWithCode(c))
              /\ \A i \in 1..Len(main_df) :
                    (CodeOf(main_df[i]) = c
                     /\ LocationOf(main_df[i]) # LastWithCode(c)) =>
                        /\ LocationOf(main_df[i]) \notin DOMAIN srepp_totals
                        /\ \A r \in Rows :
                              r.Location = LocationOf(main_df[i]) =>
                                  /\ r.Payroll_Job_Days = 0
                                  /\ r.Matched_Jobs = 0
        /\ \A l \in DOMAIN srepp_totals :
              \E c \in DOMAIN location_mapping : l = LastWithCode(c)

\* Two primary locations with one code, both with a job that gets an id,
\* and a payroll row with that code: the later location has the payroll
\* job day and the earlier one has a row without any.
C28_Witness ==
    /\ pc = "matched"
    /\ \E i, j \in Distinct :
          /\ i < j
          /\ CodeOf(main_df[i]) = CodeOf(main_df[j])
          /\ LocationOf(main_df[i]) # LocationOf(main_df[j])
          /\ PayrollWithCode(CodeOf(main_df[i])) # {}
          /\ \E r, q \in Rows :
                /\ r.Location = LocationOf(main_df[i])
                /\ r.SubCentral_Job_Days > 0
                /\ r.Payroll_Job_Days = 0
                /\ q.Location = LocationOf(main_df[j])
                /\ q.Payroll_Job_Days > 0

----------------------------------------------------------------------------
(* Properties of the run.                                                  *)

C26_StatsComputedOncePerRun ==
    /\ [](\A i, j \in 1..Len(calls) : calls[i] = calls[j] => i = j)
    /\ [][pc = "reports" => calls' = calls]_vars

\* The sum of Total over the rows of a summary.
SumOfTotal(stats) ==
    LET partial[i \in 0..Len(stats)] ==
            IF i = 0 THEN 0 ELSE partial[i - 1] + stats[i].Total
    IN  partial[Len(stats)]

\* The records that have a classification and are a filled or unfilled
\* vacancy or absence.
Counted ==
    {i \in 1..Len(main_df) :
        /\ ~IsNA(main_df[i].Classification)
        /\ main_df[i].Type_Fill_Status \in expected_cols}

\* C29: the citywide, the borough and the superintendent summaries of the
\* enriched table have the same sum of Total, which is the number of
\* records with a classification in one of the four buckets: each of them
\* is counted once at every level.
C29_TotalsAgreeAcrossLevels ==
    pc \in {"reports", "done"} /\ main_df # << >> =>
        /\ SumOfTotal(citywide_stats) = Cardinality(Counted)
        /\ SumOfTotal(borough_stats) = SumOfTotal(citywide_stats)
        /\ SumOfTotal(superintendent_stats) = SumOfTotal(citywide_stats)

\* Two counted records in different boroughs, one under a superintendent
\* and one at a location the reference file lacks, next to none.
C29_Witness ==
    /\ pc = "reports"
    /\ SumOfTotal(citywide_stats) = 2
    /\ Len(borough_stats) = 2
    /\ Len(superintendent_stats) = 2
    /\ \E i \in 1..Len(main_df) : main_df[i].Superintendent_Name = Unknown
    /\ \E i \in 1..Len(main_df) : main_df[i].Superintendent_Name # Unknown

\* C30: in the second run without --force no step writes a file that is
\* already in the output directory, so the directory stays as the first
\* run left it; with --force the second run ends having written every
\* file of the directory again.
C30_SecondRunSkipsExistingReports ==
    /\ [][(run = 2 /\ ~force_regenerate) =>
             (written' = written /\ disk' = disk)]_vars
    /\ []((run = 2 /\ force_regenerate /\ pc = "done") => written = disk)

====
